---- MODULE Spec2Model ----
(***************************************************************************)
(* serial_ecs: the codec of an entity-component world.                     *)
(*                                                                         *)
(* Representation.  A byte is a number in 0..255 and a byte string is a    *)
(* sequence of bytes; text (header lines, names) is the sequence of its    *)
(* ASCII codes.  TLC's integers are 32 bits wide, so a u32 is kept as its  *)
(* 4 big-endian bytes and an i64 as its 8 big-endian two's-complement      *)
(* bytes: to_be_bytes of such a number is the number itself, and the       *)
(* try_from narrowings are tests on the leading bytes.  Option<T> is a     *)
(* sequence of length 0 (None) or 1 (Some).  An encoder yields the         *)
(* sequence of buffers it hands to encode::State::write, in order (its     *)
(* "writes"); the sink decides which of them fail.                         *)
(***************************************************************************)
EXTENDS Integers, Sequences, FiniteSets, TLC

VARIABLES
    world,   \* the in-memory World (world.rs:15-19)
    out,     \* the bytes the writer of the last to_writer call received
    res,     \* what the last to_writer call returned: "none", "Ok", "Err"
    sink,    \* the writer of the last to_writer call, after the call
    val,     \* value codec: the Value under test
    enc,     \* value codec: the bytes encode_value wrote for val
    dec,     \* value codec: what decode_value returned on enc
    vpc,     \* value codec: "idle", "start", "encoded", "decoded"
    inp,     \* decoders: the input under test, [kind, bytes, ...]
    ret,     \* decoders: what the decoder returned on inp.bytes
    back,    \* decoders: the bytes the encoder wrote for the item decoded
    got,     \* decoders: what get / get_mut returned on the array decoded
    cpc,     \* decoders: "idle", "start", "decoded", "encoded", "got"
    host     \* scripting host: [systems, queries, last, result]

vars == <<world, out, res, sink, val, enc, dec, vpc, inp, ret, back, got, cpc, host>>

---------------------------------------------------------------------------
(* Option, Result *)

None == <<>>
Some(x) == <<x>>

Ok(v, p) == [ok |-> TRUE, val |-> v, pos |-> p]
Err == [ok |-> FALSE]

\* the outcome of a build with overflow checks or debug assertions when one
\* of them fails: the thread panics
Panic == [ok |-> FALSE, panic |-> TRUE]

\* the outcome of an allocation the machine refuses: the process aborts
Abort == [ok |-> FALSE, abort |-> TRUE]

---------------------------------------------------------------------------
(* Fixed-width integers *)

\* u16::to_be_bytes of a number 0..65535
u16_to_be_bytes(n) == <<n \div 256, n % 256>>

\* the u32 (4 big-endian bytes) of a number 0..2^31-1
U32(n) == <<n \div 16777216, (n \div 65536) % 256, (n \div 256) % 256, n % 256>>

\* the number of a u32 below 2^31
U32Nat(q) == ((q[1] * 256 + q[2]) * 256 + q[3]) * 256 + q[4]

\* u8::try_from(u32), u16::try_from(u32)
U32FitsU8(q) == q[1] = 0 /\ q[2] = 0 /\ q[3] = 0
U32FitsU16(q) == q[1] = 0 /\ q[2] = 0

\* The memory the allocator has to give when a decoder runs is a parameter
\* `mem` of the decoders: None when no request of a decoder is refused,
\* Some(n) when a Vec::with_capacity of n or more 32-byte items (Value,
\* EntityData) is refused, n below 2^31.  It depends on the machine and on
\* what the process has allocated so far.  AllocLimit is the n of a machine
\* with 16.45 GB of memory and nothing else in use; the 4 GiB that
\* decode_bytes asks for at most are granted.
AllocLimit == 526538112

Mems == {None, Some(AllocLimit)}

\* Vec::with_capacity(len) of 32-byte items is refused and the process
\* aborts (handle_alloc_error), len being a u32
with_capacity_aborts(len, mem) ==
    mem # None /\ (len[1] >= 128 \/ U32Nat(len) >= mem[1])

\* the turns of a loop of len (a u32) reads from the bytes b, as far as they
\* matter: every turn reads a byte at least, so the loop has ended on an
\* error after Len(b) + 1 turns
turns(len, b) ==
    IF len[1] >= 128 \/ U32Nat(len) > Len(b) THEN Len(b) + 1 ELSE U32Nat(len)

\* the sign extension of a big-endian two's-complement byte string to 8 bytes
\* (iN as i64)
SignExtend(bs) ==
    LET k == Len(bs)
        ext == IF bs[1] >= 128 THEN 255 ELSE 0
    IN [i \in 1..8 |-> IF i <= 8 - k THEN ext ELSE bs[i - (8 - k)]]

\* the last k bytes of an i64
LowBytes(b, k) == SubSeq(b, 8 - k + 1, 8)

\* iN::try_from(i64) succeeds, N = 8k bits
I64Fits(b, k) == SignExtend(LowBytes(b, k)) = b

\* the i64 of a number -2^31..2^31-1
I64(n) ==
    IF n >= 0 THEN SignExtend(<<0>> \o U32(n))
    ELSE LET m == (n + 2147483647) + 1
             q == U32(m)
         IN SignExtend(<<q[1] + 128, q[2], q[3], q[4]>>)

\* IEEE-754: an f64 is its 8 big-endian bytes, an f32 its 4 big-endian bytes.
Pow2(k) == CASE k = 0 -> 1 [] k = 1 -> 2 [] k = 2 -> 4 [] k = 3 -> 8 [] k = 4 -> 16
             [] k = 5 -> 32 [] k = 6 -> 64 [] k = 7 -> 128 [] k = 8 -> 256
             [] k = 9 -> 512 [] k = 10 -> 1024 [] k = 11 -> 2048 [] k = 12 -> 4096
             [] k = 13 -> 8192 [] k = 14 -> 16384 [] k = 15 -> 32768
             [] k = 16 -> 65536 [] k = 17 -> 131072 [] k = 18 -> 262144
             [] k = 19 -> 524288 [] k = 20 -> 1048576 [] k = 21 -> 2097152
             [] k = 22 -> 4194304 [] k = 23 -> 8388608

\* the f64 of sign s, biased exponent e (11 bits) and the top 23 mantissa bits m
\* (the low 29 mantissa bits are 0)
F64Pack(s, e, m) ==
    <<s * 128 + e \div 16, (e % 16) * 16 + m \div 524288, (m \div 2048) % 256,
      (m \div 8) % 256, (m % 8) * 32, 0, 0, 0>>

\* `f32 as f64`: exact widening; the conversion of a signalling NaN gives the
\* quiet NaN of the same payload (the top mantissa bit is set)
f32_as_f64(f) ==
    LET s == f[1] \div 128
        e == (f[1] % 128) * 2 + f[2] \div 128
        m == ((f[2] % 128) * 256 + f[3]) * 256 + f[4]
    IN IF e = 255
       THEN F64Pack(s, 2047, IF m = 0 \/ m >= 4194304 THEN m ELSE m + 4194304)
       ELSE IF e > 0 THEN F64Pack(s, e + 896, m)
       ELSE IF m = 0 THEN F64Pack(s, 0, 0)
       ELSE LET k == CHOOSE j \in 0..22 : Pow2(j) <= m /\ m < Pow2(j + 1)
            IN F64Pack(s, k + 874, (m - Pow2(k)) * Pow2(23 - k))

\* `x as f32` when `(x as f32) as f64 == x`, that is when x is a number that an
\* f32 holds exactly; None otherwise (a NaN never equals itself)
f64_as_f32_exact(x) ==
    LET s == x[1] \div 128
        e == (x[1] % 128) * 16 + x[2] \div 16
        m == (((x[2] % 16) * 256 + x[3]) * 256 + x[4]) * 8 + x[5] \div 32
        lowzero == x[5] % 32 = 0 /\ x[6] = 0 /\ x[7] = 0 /\ x[8] = 0
        F32Pack(e32, m32) ==
            <<s * 128 + e32 \div 2, (e32 % 2) * 128 + m32 \div 65536,
              (m32 \div 256) % 256, m32 % 256>>
    IN IF ~lowzero THEN None
       ELSE IF e = 0 THEN (IF m = 0 THEN Some(F32Pack(0, 0)) ELSE None)
       ELSE IF e = 2047 THEN (IF m = 0 THEN Some(F32Pack(255, 0)) ELSE None)
       ELSE IF e >= 897 /\ e <= 1150 THEN Some(F32Pack(e - 896, m))
       ELSE IF e >= 874 /\ e <= 896
       THEN LET k == e - 874
            IN IF m % Pow2(23 - k) = 0
               THEN Some(F32Pack(0, Pow2(k) + m \div Pow2(23 - k)))
               ELSE None
       ELSE None

---------------------------------------------------------------------------
(* Value, EntityId *)

\* A Value is the pair <<variant, payload>> and an EntityId is <<"Invalid">> or
\* <<"Idx", u32>>.
Invalid == <<"Invalid">>
Idx(q) == <<"Idx", q>>
IsIdx(id) == id[1] = "Idx"

VBool(b) == <<"Bool", b>>
VInt(b) == <<"Int", b>>
VFloat(x) == <<"Float", x>>
VBytes(bs) == <<"Bytes", bs>>
VArray(vs) == <<"Array", vs>>
VMaybe(o) == <<"Maybe", o>>
VEntityId(id) == <<"EntityId", id>>

---------------------------------------------------------------------------
(* Concatenation of a sequence of sequences *)

RECURSIVE Cat(_, _, _)
Cat(ss, lo, hi) ==
    IF lo > hi THEN <<>>
    ELSE IF lo = hi THEN ss[lo]
    ELSE LET mid == (lo + hi) \div 2
         IN Cat(ss, lo, mid) \o Cat(ss, mid + 1, hi)

\* the bytes of a sequence of writes
Flatten(writes) == Cat(writes, 1, Len(writes))

---------------------------------------------------------------------------
(* The entity-id rewrite handed to the encoders.  A closure is kept as its  *)
(* captured data: the tests' `|_| {}` is [kind |-> "identity"], and         *)
(* encode_world's transform_id is [kind |-> "packed", packed_idxs |-> p].   *)

IdentityTransform == [kind |-> "identity"]
PackedTransform(p) == [kind |-> "packed", packed_idxs |-> p]

\* slice::get(idx as usize) on a sequence shorter than 2^31
get(s, q) ==
    IF q[1] >= 128 THEN None
    ELSE IF U32Nat(q) < Len(s) THEN Some(s[U32Nat(q) + 1]) ELSE None

\* transform_id without the renumbering: a live entity keeps its position
transform_id_unranked(packed_idxs, id) ==
    IF IsIdx(id)
    THEN LET g == get(packed_idxs, id[2])
         IN IF g # None /\ g[1] # None THEN id ELSE Invalid
    ELSE id

\* transform_id without the range check: an id past the entity array is kept
transform_id_keep_missing(packed_idxs, id) ==
    IF IsIdx(id)
    THEN LET g == get(packed_idxs, id[2])
         IN IF g = None THEN id
            ELSE IF g[1] # None THEN Idx(U32(g[1][1])) ELSE Invalid
    ELSE id

\* the closure transform_id of encode_world, on a copy of the id
transform_id(packed_idxs, id) ==
    IF IsIdx(id)
    THEN LET g == get(packed_idxs, id[2])
         IN IF g # None /\ g[1] # None THEN Idx(U32(g[1][1])) ELSE Invalid
    ELSE id

e_id_transform(t, id) ==
    IF t.kind = "identity" THEN id ELSE transform_id(t.packed_idxs, id)

---------------------------------------------------------------------------
(* encode_value: the writes it makes, in order *)

encode_bool(b) == IF b THEN << <<165>> >> ELSE << <<164>> >>

\* encode_int with the 1-byte form taken for every i in 128..255 as well
encode_int_unsigned_byte(i) ==
    IF I64Fits(i, 1) /\ i[8] < 128 THEN << <<i[8]>> >>
    ELSE IF I64Fits(i, 1) \/ (\A j \in 1..7 : i[j] = 0)
    THEN << <<168>>, LowBytes(i, 1) >>
    ELSE IF I64Fits(i, 2) THEN << <<169>>, LowBytes(i, 2) >>
    ELSE IF I64Fits(i, 4) THEN << <<170>>, LowBytes(i, 4) >>
    ELSE << <<171>>, i >>

\* encode_int without the 16-bit form
encode_int_no_i16(i) ==
    IF I64Fits(i, 1) /\ i[8] < 128 THEN << <<i[8]>> >>
    ELSE IF I64Fits(i, 1) THEN << <<168>>, LowBytes(i, 1) >>
    ELSE IF I64Fits(i, 4) THEN << <<170>>, LowBytes(i, 4) >>
    ELSE << <<171>>, i >>

encode_int(i) ==
    IF I64Fits(i, 1) /\ i[8] < 128 THEN << <<i[8]>> >>
    ELSE IF I64Fits(i, 1) THEN << <<168>>, LowBytes(i, 1) >>
    ELSE IF I64Fits(i, 2) THEN << <<169>>, LowBytes(i, 2) >>
    ELSE IF I64Fits(i, 4) THEN << <<170>>, LowBytes(i, 4) >>
    ELSE << <<171>>, i >>

encode_float(x) ==
    LET x_f32 == f64_as_f32_exact(x)
    IN IF x_f32 # None THEN << <<166>>, x_f32[1] >> ELSE << <<167>>, x >>

\* the Bytes header with the tag of the 8-bit form on the 32-bit length
encode_bytes_header_short_tag(len) ==
    IF len <= 255
    THEN IF len < 16 THEN << <<128 + len>> >> ELSE << <<160, len>> >>
    ELSE << <<160>>, U32(len) >>

\* the length header of Value::Bytes, len < 2^31
encode_bytes_header(len) ==
    IF len <= 255
    THEN IF len < 16 THEN << <<128 + len>> >> ELSE << <<160, len>> >>
    ELSE << <<161>>, U32(len) >>

\* the length header of Value::Array, len < 2^31
encode_array_header(len) ==
    IF len <= 255
    THEN IF len < 16 THEN << <<144 + len>> >> ELSE << <<162, len>> >>
    ELSE << <<162>>, U32(len) >>

\* the arm as `Value::EntityId(ref mut id)` would make it: the rewrite acts
\* on the stored id
bind_ref_mut_id(id0, t) ==
    [stored |-> e_id_transform(t, id0), id |-> e_id_transform(t, id0)]

\* value.rs:163-164 `Value::EntityId(mut id) => { e_id_transform(&mut id);`:
\* the pattern binds a copy `id` of the id the value stores and the rewrite
\* acts on the copy.  `stored` is the id in the value and `id` the local
\* binding, both after the call of e_id_transform.
bind_mut_id(id0, t) == [stored |-> id0, id |-> e_id_transform(t, id0)]

\* encode_entity_id with the inline form kept for the indices below 32 only
encode_entity_id_inline_32(id0, t) ==
    LET id == bind_mut_id(id0, t).id
    IN IF IsIdx(id)
       THEN LET i == id[2]
            IN IF U32FitsU8(i)
               THEN IF i[4] < 32 THEN << <<192 + i[4]>> >> ELSE << <<174, i[4]>> >>
               ELSE IF U32FitsU16(i) THEN << <<175>>, <<i[3], i[4]>> >>
               ELSE << <<176>>, i >>
       ELSE << <<177>> >>

\* Value::EntityId: the local binding is rewritten, then written
encode_entity_id(id0, t) ==
    LET id == bind_mut_id(id0, t).id
    IN IF IsIdx(id)
       THEN LET i == id[2]
            IN IF U32FitsU8(i)
               THEN IF i[4] < 64 THEN << <<192 + i[4]>> >> ELSE << <<174, i[4]>> >>
               ELSE IF U32FitsU16(i) THEN << <<175>>, <<i[3], i[4]>> >>
               ELSE << <<176>>, i >>
       ELSE << <<177>> >>

RECURSIVE encode_value(_, _)

\* the loop over the elements without the rewrite handed down
encode_elements_unrewritten(vs, t) ==
    Flatten([k \in 1..Len(vs) |-> encode_value(vs[k], IdentityTransform)])

\* Value::Array: the loop over the elements, the rewrite handed down to each
encode_elements(vs, t) ==
    Flatten([k \in 1..Len(vs) |-> encode_value(vs[k], t)])

encode_value(v, t) ==
    CASE v[1] = "Bool" -> encode_bool(v[2])
      [] v[1] = "Int" -> encode_int(v[2])
      [] v[1] = "Float" -> encode_float(v[2])
      [] v[1] = "Bytes" -> encode_bytes_header(Len(v[2])) \o <<v[2]>>
      [] v[1] = "Array" ->
            encode_array_header(Len(v[2])) \o encode_elements(v[2], t)
      [] v[1] = "Maybe" ->
            IF v[2] = None THEN << <<172>> >>
            ELSE << <<173>> >> \o encode_value(v[2][1], t)
      [] v[1] = "EntityId" -> encode_entity_id(v[2], t)

---------------------------------------------------------------------------
(* decode::State: the input b and the cursor p (bytes consumed so far) *)

\* State::next with a zero byte read at the end of the input
next_zero_at_eof(b, p) == IF p < Len(b) THEN Ok(b[p + 1], p + 1) ELSE Ok(0, p)

\* State::next
next(b, p) == IF p < Len(b) THEN Ok(b[p + 1], p + 1) ELSE Err

\* n calls of State::next
next_n(b, p, n) == IF n <= Len(b) - p THEN Ok(SubSeq(b, p + 1, p + n), p + n) ELSE Err

decode_u8(b, p) == next(b, p)

decode_u16(b, p) ==
    LET r == next_n(b, p, 2)
    IN IF r.ok THEN Ok(r.val[1] * 256 + r.val[2], r.pos) ELSE Err

decode_u24(b, p) ==
    LET r == next_n(b, p, 3)
    IN IF r.ok THEN Ok(<<0>> \o r.val, r.pos) ELSE Err

decode_u32(b, p) == next_n(b, p, 4)

\* decode_i8, decode_i16, decode_i32, decode_i64 followed by `as i64`
decode_int(b, p, k) ==
    LET r == next_n(b, p, k)
    IN IF r.ok THEN Ok(VInt(SignExtend(r.val)), r.pos) ELSE Err

\* decode_bytes with the length as a u32; no input of the model holds 2^31
\* bytes, so a length of 2^31 or more ends in EOF
decode_bytes(b, p, len) ==
    IF len[1] >= 128 THEN Err
    ELSE LET r == next_n(b, p, U32Nat(len))
         IN IF r.ok THEN Ok(VBytes(r.val), r.pos) ELSE Err

\* the result of a loop of one step: the item r holds, as a list
one_item(r) == IF r.ok THEN Ok(<<r.val>>, r.pos) ELSE r

\* the result of a loop whose first steps gave r1 and whose other steps gave r2
both_parts(r1, r2) == IF r2.ok THEN Ok(r1.val \o r2.val, r2.pos) ELSE r2

RECURSIVE decode_value(_, _, _)
RECURSIVE decode_values(_, _, _, _)
RECURSIVE decode_values_after(_, _, _, _)

\* n calls of decode_value, the first error ending the loop; the loop is split
\* in halves to keep the evaluation shallow
decode_values(b, p, n, mem) ==
    IF n = 0 THEN Ok(<<>>, p)
    ELSE IF n = 1 THEN one_item(decode_value(b, p, mem))
    ELSE decode_values_after(b, decode_values(b, p, n \div 2, mem), n - n \div 2, mem)

\* the m calls left after the calls that gave r1
decode_values_after(b, r1, m, mem) ==
    IF ~r1.ok THEN r1 ELSE both_parts(r1, decode_values(b, r1.pos, m, mem))

\* Value::Array of the elements read
array_of(r) == IF r.ok THEN Ok(VArray(r.val), r.pos) ELSE r

\* Value::Maybe(Some) of the value read
some_of(r) == IF r.ok THEN Ok(VMaybe(Some(r.val)), r.pos) ELSE r

\* decode_array with the length as a u32: Vec::with_capacity(len), then the
\* loop over the elements
decode_array(b, p, len, mem) ==
    IF with_capacity_aborts(len, mem) THEN Abort
    ELSE array_of(decode_values(b, p, turns(len, b), mem))

decode_value(b, p, mem) ==
    LET h == next(b, p)
    IN IF ~h.ok THEN Err
       ELSE LET t == h.val
                q == h.pos
            IN CASE t <= 127 -> Ok(VInt(SignExtend(<<t>>)), q)
                 [] t >= 128 /\ t <= 143 -> decode_bytes(b, q, U32(t - 128))
                 [] t >= 144 /\ t <= 159 -> decode_array(b, q, U32(t - 144), mem)
                 [] t = 160 ->
                       LET l == decode_u8(b, q)
                       IN IF l.ok THEN decode_bytes(b, l.pos, U32(l.val)) ELSE Err
                 [] t = 161 ->
                       LET l == decode_u32(b, q)
                       IN IF l.ok THEN decode_bytes(b, l.pos, l.val) ELSE Err
                 [] t = 162 ->
                       LET l == decode_u8(b, q)
                       IN IF l.ok THEN decode_array(b, l.pos, U32(l.val), mem) ELSE Err
                 [] t = 163 ->
                       LET l == decode_u32(b, q)
                       IN IF l.ok THEN decode_array(b, l.pos, l.val, mem) ELSE Err
                 [] t = 164 -> Ok(VBool(FALSE), q)
                 [] t = 165 -> Ok(VBool(TRUE), q)
                 [] t = 166 ->
                       LET r == next_n(b, q, 4)
                       IN IF r.ok THEN Ok(VFloat(f32_as_f64(r.val)), r.pos) ELSE Err
                 [] t = 167 ->
                       LET r == next_n(b, q, 8)
                       IN IF r.ok THEN Ok(VFloat(r.val), r.pos) ELSE Err
                 [] t = 168 -> decode_int(b, q, 1)
                 [] t = 169 -> decode_int(b, q, 2)
                 [] t = 170 -> decode_int(b, q, 4)
                 [] t = 171 -> decode_int(b, q, 8)
                 [] t = 172 -> Ok(VMaybe(None), q)
                 [] t = 173 -> some_of(decode_value(b, q, mem))
                 [] t = 174 ->
                       LET r == decode_u8(b, q)
                       IN IF r.ok THEN Ok(VEntityId(Idx(U32(r.val))), r.pos) ELSE Err
                 [] t = 175 ->
                       LET r == decode_u16(b, q)
                       IN IF r.ok THEN Ok(VEntityId(Idx(U32(r.val))), r.pos) ELSE Err
                 [] t = 176 ->
                       LET r == decode_u32(b, q)
                       IN IF r.ok THEN Ok(VEntityId(Idx(r.val)), r.pos) ELSE Err
                 [] t = 177 -> Ok(VEntityId(Invalid), q)
                 [] t >= 178 /\ t <= 191 -> Err
                 [] t >= 192 -> Ok(VEntityId(Idx(U32(t - 192))), q)

---------------------------------------------------------------------------
(* Text: a string is the sequence of its ASCII codes *)

SP == 32
NL == 10
STR_WORLD == <<87, 79, 82, 76, 68>>
STR_COMPONENT == <<67, 79, 77, 80, 79, 78, 69, 78, 84>>
STR_GLOBAL == <<71, 76, 79, 66, 65, 76>>
STR_ENTITIES == <<69, 78, 84, 73, 84, 73, 69, 83>>

\* Display of an unsigned number below 2^31: its decimal digits
RECURSIVE fmt(_)
fmt(n) == IF n < 10 THEN <<48 + n>> ELSE Append(fmt(n \div 10), 48 + (n % 10))

\* char::is_whitespace on an ASCII byte
is_whitespace(c) == c \in {9, 10, 11, 12, 13, 32}

\* str::split_whitespace: the maximal runs of non-whitespace, in order
RECURSIVE split_from(_, _, _, _)
split_from(line, i, cur, acc) ==
    IF i > Len(line) THEN (IF cur = <<>> THEN acc ELSE Append(acc, cur))
    ELSE IF is_whitespace(line[i])
    THEN split_from(line, i + 1, <<>>, IF cur = <<>> THEN acc ELSE Append(acc, cur))
    ELSE split_from(line, i + 1, Append(cur, line[i]), acc)

split_whitespace(line) == split_from(line, 1, <<>>, <<>>)

\* str::parse::<u32>: an optional '+', then one or more decimal digits whose
\* value fits 32 bits.  The value is accumulated in two 16-bit halves.
RECURSIVE parse_digits(_, _, _, _)
parse_digits(tok, i, hi, lo) ==
    IF i > Len(tok) THEN Some(<<hi \div 256, hi % 256, lo \div 256, lo % 256>>)
    ELSE IF tok[i] < 48 \/ tok[i] > 57 THEN None
    ELSE LET lo2 == lo * 10 + (tok[i] - 48)
             hi2 == hi * 10 + lo2 \div 65536
         IN IF hi2 >= 65536 THEN None
            ELSE parse_digits(tok, i + 1, hi2, lo2 % 65536)

parse_u32(tok) ==
    LET digits == IF Len(tok) > 1 /\ tok[1] = 43 THEN Tail(tok) ELSE tok
    IN IF digits = <<>> THEN None ELSE parse_digits(digits, 1, 0, 0)

\* str::parse::<u16> taking every value that fits 32 bits
parse_u16_wide(tok) ==
    LET r == parse_u32(tok)
    IN IF r # None /\ r[1][1] < 128 THEN Some(U32Nat(r[1])) ELSE None

\* str::parse::<u16>
parse_u16(tok) ==
    LET r == parse_u32(tok)
    IN IF r # None /\ U32FitsU16(r[1]) THEN Some(U32Nat(r[1])) ELSE None

\* u32 * (n as u32) for a small n, with the overflow flag
U32Mul(q, n) ==
    LET lo == (q[3] * 256 + q[4]) * n
        hi == (q[1] * 256 + q[2]) * n + lo \div 65536
    IN [wrapped |-> <<(hi % 65536) \div 256, hi % 256, (lo % 65536) \div 256, lo % 256>>,
        overflow |-> hi >= 65536]

---------------------------------------------------------------------------
(* encode::State over a writer that implements write() alone: write_all    *)
(* and write_fmt are the defaults of the trait, so State::write(buf) is one *)
(* write() call for a buffer that is not empty and none for an empty one,   *)
(* and State::write_fmt is one State::write for each literal piece and each *)
(* argument of the format string.  out is what the writer stored, n the     *)
(* number of write() calls it received.  The writer fails its call number   *)
(* fail_at (0: none) and stores nothing of it; a writer with room for       *)
(* Some(r) bytes (a byte slice) stores the part of a buffer that fits, and  *)
(* the write_all that finds no room left fails.                             *)

NewState(fail_at, room) ==
    [out |-> <<>>, n |-> 0, fail_at |-> fail_at, room |-> room, failed |-> FALSE,
     panicked |-> FALSE]

\* in a sequence of writes, the place where a debug assertion fails
PanicWrite == <<-1>>

write_fails(es, k) == es.fail_at # 0 /\ k = es.fail_at

NonEmpty(buf) == buf # <<>>

\* the write_all calls of ws, all by all, on a writer with room for fewer
\* bytes than `bytes` holds: the buffer that crosses the end of the room is
\* stored in part, by one more write() call when a part of it fits
fill_room(es, ws, bytes) ==
    LET room == es.room[1]
        before(j) == Len(es.out) + Len(Flatten(SubSeq(ws, 1, j - 1)))
        j == CHOOSE x \in 1..Len(ws) :
                 before(x) <= room /\ before(x) + Len(ws[x]) > room
    IN [es |-> [es EXCEPT !.out = SubSeq(bytes, 1, room),
                          !.n = @ + j + (IF before(j) < room THEN 1 ELSE 0),
                          !.failed = TRUE],
        ok |-> FALSE]

\* State::write for each buffer of `writes` in turn, each followed by `?`:
\* the first failure ends the sequence, and so does a failed assertion
try_writes(es, writes) ==
    LET marks == { j \in 1..Len(writes) : writes[j] = PanicWrite }
        stop == IF marks = {} THEN Len(writes) + 1
                ELSE CHOOSE x \in marks : \A y \in marks : x <= y
        ws == SelectSeq(SubSeq(writes, 1, stop - 1), NonEmpty)
        bad == { j \in 1..Len(ws) : write_fails(es, es.n + j) }
        upto == IF bad = {} THEN Len(ws) ELSE (CHOOSE x \in bad : TRUE) - 1
        bytes == es.out \o Flatten(SubSeq(ws, 1, upto))
    IN IF es.panicked THEN [es |-> es, ok |-> FALSE]
       ELSE IF es.room # None /\ Len(bytes) > es.room[1]
       THEN fill_room(es, SubSeq(ws, 1, upto), bytes)
       ELSE IF bad # {}
       THEN [es |-> [es EXCEPT !.out = bytes, !.n = @ + upto + 1, !.failed = TRUE],
             ok |-> FALSE]
       ELSE IF marks # {}
       THEN [es |-> [es EXCEPT !.out = bytes, !.n = @ + upto, !.panicked = TRUE],
             ok |-> FALSE]
       ELSE [es |-> [es EXCEPT !.out = bytes, !.n = @ + upto], ok |-> TRUE]

---------------------------------------------------------------------------
(* Entities: ComponentIdx [id, idx], EntityData [is_deleted, components],   *)
(* EntityArray = the sequence of its entries                                *)

\* EntityArray::packed_idxs: the loop over the entries from entry k on, with
\* the counter i and the vector idxs
\* the loop with the counter stepped at every entry, deleted or not
RECURSIVE packed_idxs_loop_counting_all(_, _, _, _)
packed_idxs_loop_counting_all(entries, k, i, idxs) ==
    IF k > Len(entries) THEN idxs
    ELSE IF entries[k].is_deleted
    THEN packed_idxs_loop_counting_all(entries, k + 1, i + 1, Append(idxs, None))
    ELSE packed_idxs_loop_counting_all(entries, k + 1, i + 1, Append(idxs, Some(i)))

RECURSIVE packed_idxs_loop(_, _, _, _)
packed_idxs_loop(entries, k, i, idxs) ==
    IF k > Len(entries) THEN idxs
    ELSE IF entries[k].is_deleted
    THEN packed_idxs_loop(entries, k + 1, i, Append(idxs, None))
    ELSE packed_idxs_loop(entries, k + 1, i + 1, Append(idxs, Some(i)))

packed_idxs(entries) == packed_idxs_loop(entries, 1, 0, <<>>)

IdScale_from_id(id) ==
    IF id <= 255 THEN (IF id < 64 THEN "U6" ELSE "U8") ELSE "U16"

\* IdxScale::from_idx without the class of the three-byte indices
IdxScale_from_idx_no_u24(idx) ==
    IF U32FitsU8(idx) THEN (IF idx[4] = 0 THEN "Zero" ELSE "U8")
    ELSE IF U32FitsU16(idx) THEN "U16"
    ELSE "U32"

IdxScale_from_idx(idx) ==
    IF U32FitsU8(idx) THEN (IF idx[4] = 0 THEN "Zero" ELSE "U8")
    ELSE IF U32FitsU16(idx) THEN "U16"
    ELSE IF idx[1] = 0 THEN "U24"
    ELSE "U32"

encode_component_idx(c) ==
    LET id_s == IdScale_from_id(c.id)
        idx_s == IdxScale_from_idx(c.idx)
        a8 == <<c.id>>
        a16 == u16_to_be_bytes(c.id)
        b8 == <<c.idx[4]>>
        b16 == <<c.idx[3], c.idx[4]>>
        b24 == <<c.idx[2], c.idx[3], c.idx[4]>>
        b32 == c.idx
    IN CASE id_s = "U6" /\ idx_s = "Zero" -> << <<192 + c.id>> >>
         [] id_s = "U6" /\ idx_s = "U8" -> << a8, b8 >>
         [] id_s = "U6" /\ idx_s = "U16" -> << <<64 + c.id>>, b16 >>
         [] id_s = "U6" /\ idx_s = "U24" -> << <<130>>, a8, b24 >>
         [] id_s = "U6" /\ idx_s = "U32" -> << <<131>>, a8, b32 >>
         [] id_s = "U8" /\ idx_s = "Zero" -> << <<136>>, a8 >>
         [] id_s = "U8" /\ idx_s = "U8" -> << <<128>>, a8, b8 >>
         [] id_s = "U8" /\ idx_s = "U16" -> << <<129>>, a8, b16 >>
         [] id_s = "U8" /\ idx_s = "U24" -> << <<130>>, a8, b24 >>
         [] id_s = "U8" /\ idx_s = "U32" -> << <<131>>, a8, b32 >>
         [] id_s = "U16" /\ idx_s = "Zero" -> << <<137>>, a16 >>
         [] id_s = "U16" /\ idx_s = "U8" -> << <<132>>, a16, b8 >>
         [] id_s = "U16" /\ idx_s = "U16" -> << <<133>>, a16, b16 >>
         [] id_s = "U16" /\ idx_s = "U24" -> << <<134>>, a16, b24 >>
         [] id_s = "U16" /\ idx_s = "U32" -> << <<135>>, a16, b32 >>

\* encode_entity_data with the one-byte count kept up to 255
encode_entity_data_byte_255(data, checks) ==
    LET len == Len(data.components)
    IN IF checks /\ len >= 65536 THEN << PanicWrite >>
       ELSE (IF len <= 255 THEN << <<len>> >>
             ELSE << <<255>>, u16_to_be_bytes(len % 65536) >>)
            \o Flatten([k \in 1..len |-> encode_component_idx(data.components[k])])

\* encode_entity_data: the writes it makes when none fails.  A build with
\* debug assertions (checks) panics before the first write on 65536
\* components or more; a build without them writes the count modulo 65536.
encode_entity_data(data, checks) ==
    LET len == Len(data.components)
    IN IF checks /\ len >= 65536 THEN << PanicWrite >>
       ELSE (IF len < 255 THEN << <<len>> >>
             ELSE << <<255>>, u16_to_be_bytes(len % 65536) >>)
            \o Flatten([k \in 1..len |-> encode_component_idx(data.components[k])])

\* the loop of encode_entity_array without the skip of the deleted entries
RECURSIVE encode_entries_all(_, _, _, _)
encode_entries_all(es, entries, k, checks) ==
    IF k > Len(entries) THEN es
    ELSE encode_entries_all(try_writes(es, encode_entity_data(entries[k], checks)).es,
                            entries, k + 1, checks)

\* the loop of encode_entity_array from entry k on: the result of
\* encode_entity_data is dropped
RECURSIVE encode_entries(_, _, _, _)
encode_entries(es, entries, k, checks) ==
    IF k > Len(entries) THEN es
    ELSE IF entries[k].is_deleted THEN encode_entries(es, entries, k + 1, checks)
    ELSE encode_entries(try_writes(es, encode_entity_data(entries[k], checks)).es,
                        entries, k + 1, checks)

\* the Ok(()) at the end of encode_entity_array, reached unless the loop
\* panicked
entries_done(es) == [es |-> es, ok |-> ~es.panicked]

encode_entity_array(es, entries, checks) ==
    LET len == Cardinality({ k \in 1..Len(entries) : ~entries[k].is_deleted })
        h == try_writes(es, << STR_ENTITIES \o <<SP>>, fmt(len), <<NL>> >>)
    IN IF ~h.ok THEN h
       ELSE entries_done(encode_entries(h.es, entries, 1, checks))

---------------------------------------------------------------------------
(* Components: ComponentArray [name, id, scheme, values], GlobalComponent   *)
(* [scheme, values]                                                         *)

\* the writes of the scheme: a space and the name, for each field
scheme_writes(scheme) ==
    Flatten([k \in 1..Len(scheme) |-> << <<SP>>, scheme[k] >>])

\* the writes of the values, each through encode_value with the rewrite t
values_writes(values, t) ==
    Flatten([k \in 1..Len(values) |-> encode_value(values[k], t)])

encode_component_array(array, t) ==
    LET len == IF Len(array.scheme) = 0 THEN 0
               ELSE Len(array.values) \div Len(array.scheme)
    IN << STR_COMPONENT \o <<SP>>, array.name, <<SP>>, fmt(array.id), <<SP>>,
          fmt(len) >>
       \o scheme_writes(array.scheme)
       \o << <<NL>> >>
       \o values_writes(array.values, t)

encode_global_component(global, t) ==
    << STR_GLOBAL >>
    \o scheme_writes(global.scheme)
    \o << <<NL>> >>
    \o values_writes(global.values, t)

---------------------------------------------------------------------------
(* World [components, global, entities]; components is the VecMap, a        *)
(* function from the ids present to their arrays                            *)

\* the keys taken from the highest down
RECURSIVE SortedKeysDescending(_)
SortedKeysDescending(S) ==
    IF S = {} THEN <<>>
    ELSE LET m == CHOOSE x \in S : \A y \in S : y <= x
         IN <<m>> \o SortedKeysDescending(S \ {m})

\* the keys of a VecMap in iteration order
RECURSIVE SortedKeys(_)
SortedKeys(S) ==
    IF S = {} THEN <<>>
    ELSE LET m == CHOOSE x \in S : \A y \in S : x <= y
         IN <<m>> \o SortedKeys(S \ {m})

EmptyWorld ==
    [components |-> <<>>, global |-> [scheme |-> <<>>, values |-> <<>>],
     entities |-> <<>>]

encode_world(es, w, checks) ==
    LET ids == DOMAIN w.components
        num_component_arrays == Cardinality(ids)
        max_component_arrays ==
            IF ids = {} THEN 0 ELSE CHOOSE x \in ids : \A y \in ids : y <= x
        header == << STR_WORLD \o <<SP>>, fmt(num_component_arrays), <<SP>>,
                     fmt(max_component_arrays), <<NL>> >>
        t == PackedTransform(packed_idxs(w.entities))
        keys == SortedKeys(ids)
        arrays == Flatten([k \in 1..Len(keys) |->
                      encode_component_array(w.components[keys[k]], t) \o << <<NL>> >>])
        global == encode_global_component(w.global, t) \o << <<NL>> >>
        r == try_writes(es, header \o arrays \o global)
    IN IF ~r.ok THEN r ELSE encode_entity_array(r.es, w.entities, checks)

\* the value v as it stands once encode_value(v, t) has returned: what the
\* EntityId arm has left in each id, every other arm only reading
RECURSIVE value_after_encode(_, _)
value_after_encode(v, t) ==
    CASE v[1] = "EntityId" -> VEntityId(bind_mut_id(v[2], t).stored)
      [] v[1] = "Array" ->
            VArray([k \in 1..Len(v[2]) |-> value_after_encode(v[2][k], t)])
      [] v[1] = "Maybe" ->
            (IF v[2] = None THEN v ELSE VMaybe(Some(value_after_encode(v[2][1], t))))
      [] OTHER -> v

\* the World as it stands once encode_world has returned; the entity array
\* is read only
world_after_encode(w) ==
    LET t == PackedTransform(packed_idxs(w.entities))
    IN [components |->
            [id \in DOMAIN w.components |->
                [w.components[id] EXCEPT !.values =
                    [k \in 1..Len(w.components[id].values) |->
                        value_after_encode(w.components[id].values[k], t)]]],
        global |->
            [w.global EXCEPT !.values =
                [k \in 1..Len(w.global.values) |->
                    value_after_encode(w.global.values[k], t)]],
        entities |-> w.entities]

---------------------------------------------------------------------------
(* Decoding of the blocks *)

\* State::expect_newline
expect_newline(b, p) ==
    LET r == next(b, p)
    IN IF r.ok /\ r.val = NL THEN Ok(NL, r.pos) ELSE Err

\* State::decode_header_line: the tokens of the line that ends at the next
\* newline; EOF or a non-ASCII byte before it is an error
decode_header_line(b, p) ==
    LET nls == { i \in (p + 1)..Len(b) : b[i] = NL }
    IN IF nls = {} THEN Err
       ELSE LET stop == CHOOSE x \in nls : \A y \in nls : x <= y
            IN IF \E i \in (p + 1)..(stop - 1) : b[i] >= 128 THEN Err
               ELSE Ok(split_whitespace(SubSeq(b, p + 1, stop - 1)), stop)

\* a scan that compares each element with the one before it only
find_duplicate_adjacent(ts) ==
    LET dups == { i \in 2..Len(ts) : ts[i - 1] = ts[i] }
    IN IF dups = {} THEN None
       ELSE Some(ts[CHOOSE x \in dups : \A y \in dups : x <= y])

\* find_duplicate_quadratic: the first element equal to an earlier one
find_duplicate_quadratic(ts) ==
    LET dups == { i \in 1..Len(ts) : \E j \in 1..(i - 1) : ts[j] = ts[i] }
    IN IF dups = {} THEN None
       ELSE Some(ts[CHOOSE x \in dups : \A y \in dups : x <= y])

\* num_components * scheme.len() as u32, as a release build computes it
num_values_of(num_components, scheme) == U32Mul(num_components, Len(scheme)).wrapped

\* the ComponentArray built from the header fields and the values read
component_array_of(name, id, scheme, vs) ==
    IF vs.ok
    THEN Ok([name |-> name, id |-> id, scheme |-> scheme, values |-> vs.val], vs.pos)
    ELSE vs

\* decode_component_array as built with (checks) or without overflow
\* checks: the product num_components * scheme.len() panics with them when
\* it overflows and wraps without them; Vec::with_capacity(num_values)
\* comes before the first value is read
decode_component_array(b, p, checks, mem) ==
    LET h == decode_header_line(b, p)
    IN IF ~h.ok THEN Err
       ELSE IF Len(h.val) < 4 THEN Err
       ELSE IF h.val[1] # STR_COMPONENT THEN Err
       ELSE LET name == h.val[2]
                id == parse_u16(h.val[3])
                num_components == parse_u32(h.val[4])
                scheme == SubSeq(h.val, 5, Len(h.val))
            IN IF id = None THEN Err
               ELSE IF num_components = None THEN Err
               ELSE IF find_duplicate_quadratic(scheme) # None THEN Err
               ELSE IF checks /\ U32Mul(num_components[1], Len(scheme)).overflow
               THEN Panic
               ELSE LET num_values == num_values_of(num_components[1], scheme)
                    IN component_array_of(name, id[1], scheme,
                           IF with_capacity_aborts(num_values, mem) THEN Abort
                           ELSE decode_values(b, h.pos, turns(num_values, b), mem))

\* the GlobalComponent built from the scheme and the values read
global_component_of(scheme, vs) ==
    IF vs.ok THEN Ok([scheme |-> scheme, values |-> vs.val], vs.pos) ELSE vs

decode_global_component(b, p, mem) ==
    LET h == decode_header_line(b, p)
    IN IF ~h.ok THEN Err
       ELSE IF Len(h.val) = 0 THEN Err
       ELSE IF h.val[1] # STR_GLOBAL THEN Err
       ELSE LET scheme == Tail(h.val)
            IN IF find_duplicate_quadratic(scheme) # None THEN Err
               ELSE global_component_of(scheme, decode_values(b, h.pos, Len(scheme), mem))

\* the idx bytes read, widened to a u32
\* the bytes read taken as the high bytes of the index
idx_of_high_bytes(bs) == [k \in 1..4 |-> IF k <= Len(bs) THEN bs[k] ELSE 0]

idx_of(bs) == [k \in 1..4 |-> IF k <= 4 - Len(bs) THEN 0 ELSE bs[k - (4 - Len(bs))]]

\* the id and the idx of a component index, read one after the other
decode_id_idx(b, p, id_bytes, idx_bytes) ==
    LET r == next_n(b, p, id_bytes + idx_bytes)
    IN IF ~r.ok THEN Err
       ELSE Ok([id |-> IF id_bytes = 1 THEN r.val[1] ELSE r.val[1] * 256 + r.val[2],
                idx |-> idx_of(SubSeq(r.val, id_bytes + 1, id_bytes + idx_bytes))],
               r.pos)

\* the idx alone, after a tag that holds the id
decode_idx(b, p, id, idx_bytes) ==
    LET r == next_n(b, p, idx_bytes)
    IN IF ~r.ok THEN Err ELSE Ok([id |-> id, idx |-> idx_of(r.val)], r.pos)

decode_component_idx(b, p) ==
    LET h == next(b, p)
    IN IF ~h.ok THEN Err
       ELSE LET t == h.val
                q == h.pos
            IN CASE t <= 63 -> decode_idx(b, q, t, 1)
                 [] t >= 64 /\ t <= 127 -> decode_idx(b, q, t - 64, 2)
                 [] t = 128 -> decode_id_idx(b, q, 1, 1)
                 [] t = 129 -> decode_id_idx(b, q, 1, 2)
                 [] t = 130 -> decode_id_idx(b, q, 1, 3)
                 [] t = 131 -> decode_id_idx(b, q, 1, 4)
                 [] t = 132 -> decode_id_idx(b, q, 2, 1)
                 [] t = 133 -> decode_id_idx(b, q, 2, 2)
                 [] t = 134 -> decode_id_idx(b, q, 2, 3)
                 [] t = 135 -> decode_id_idx(b, q, 2, 4)
                 [] t = 136 -> decode_id_idx(b, q, 1, 0)
                 [] t = 137 -> decode_id_idx(b, q, 2, 0)
                 [] t >= 138 /\ t <= 191 -> Err
                 [] t >= 192 -> Ok([id |-> t - 192, idx |-> <<0, 0, 0, 0>>], q)

\* n calls of decode_component_idx, the first error ending the loop
RECURSIVE decode_component_idxs(_, _, _)
RECURSIVE decode_component_idxs_after(_, _, _)
decode_component_idxs(b, p, n) ==
    IF n = 0 THEN Ok(<<>>, p)
    ELSE IF n = 1 THEN one_item(decode_component_idx(b, p))
    ELSE decode_component_idxs_after(b, decode_component_idxs(b, p, n \div 2),
                                     n - n \div 2)

decode_component_idxs_after(b, r1, m) ==
    IF ~r1.ok THEN r1 ELSE both_parts(r1, decode_component_idxs(b, r1.pos, m))

\* the EntityData built from the component indices read
entity_data_of(cs) ==
    IF cs.ok THEN Ok([is_deleted |-> FALSE, components |-> cs.val], cs.pos) ELSE cs

decode_entity_data(b, p) ==
    LET h == next(b, p)
    IN IF ~h.ok THEN Err
       ELSE LET num_comp_idxs == IF h.val = 255 THEN decode_u16(b, h.pos) ELSE h
            IN IF ~num_comp_idxs.ok THEN Err
               ELSE entity_data_of(decode_component_idxs(b, num_comp_idxs.pos,
                                                         num_comp_idxs.val))

\* n calls of decode_entity_data, the first error ending the loop
RECURSIVE decode_entity_datas(_, _, _)
RECURSIVE decode_entity_datas_after(_, _, _)
decode_entity_datas(b, p, n) ==
    IF n = 0 THEN Ok(<<>>, p)
    ELSE IF n = 1 THEN one_item(decode_entity_data(b, p))
    ELSE decode_entity_datas_after(b, decode_entity_datas(b, p, n \div 2),
                                   n - n \div 2)

decode_entity_datas_after(b, r1, m) ==
    IF ~r1.ok THEN r1 ELSE both_parts(r1, decode_entity_datas(b, r1.pos, m))

\* Vec::with_capacity(num_entities) comes before the first record
decode_entity_array(b, p, mem) ==
    LET h == decode_header_line(b, p)
    IN IF ~h.ok THEN Err
       ELSE IF Len(h.val) # 2 THEN Err
       ELSE IF h.val[1] # STR_ENTITIES THEN Err
       ELSE LET num_entities == parse_u32(h.val[2])
            IN IF num_entities = None THEN Err
               ELSE IF with_capacity_aborts(num_entities[1], mem) THEN Abort
               ELSE decode_entity_datas(b, h.pos, turns(num_entities[1], b))

\* the loop of decode_world over the component arrays, n of them left to read
RECURSIVE decode_world_arrays(_, _, _, _, _, _, _, _)
RECURSIVE decode_world_array(_, _, _, _, _, _, _, _)
decode_world_arrays(b, p, n, max_component_id, component_arrays, component_names, checks, mem) ==
    IF n = 0 THEN Ok(component_arrays, p)
    ELSE decode_world_array(b, decode_component_array(b, p, checks, mem), n,
                            max_component_id, component_arrays, component_names,
                            checks, mem)

\* one turn of the loop that turns down the ids from the maximum on
decode_world_array_below_max(b, r, n, max_component_id, component_arrays, component_names, checks, mem) ==
    IF ~r.ok THEN r
    ELSE IF r.val.name \in component_names THEN Err
    ELSE IF r.val.id >= max_component_id THEN Err
    ELSE IF r.val.id \in DOMAIN component_arrays THEN Err
    ELSE LET nl == expect_newline(b, r.pos)
         IN IF ~nl.ok THEN Err
            ELSE decode_world_arrays(b, nl.pos, n - 1, max_component_id,
                                     (r.val.id :> r.val) @@ component_arrays,
                                     component_names \cup {r.val.name}, checks, mem)

\* one turn of the loop, r being what decode_component_array returned
decode_world_array(b, r, n, max_component_id, component_arrays, component_names, checks, mem) ==
    IF ~r.ok THEN r
    ELSE IF r.val.name \in component_names THEN Err
    ELSE IF r.val.id > max_component_id THEN Err
    ELSE IF r.val.id \in DOMAIN component_arrays THEN Err
    ELSE LET nl == expect_newline(b, r.pos)
         IN IF ~nl.ok THEN Err
            ELSE decode_world_arrays(b, nl.pos, n - 1, max_component_id,
                                     (r.val.id :> r.val) @@ component_arrays,
                                     component_names \cup {r.val.name}, checks, mem)

\* the World built from its three parts, e being what decode_entity_array
\* returned
world_of(component_arrays, global, e) ==
    IF ~e.ok THEN e
    ELSE Ok([components |-> component_arrays, global |-> global, entities |-> e.val],
            e.pos)

\* decode_world from the global component on, g being what
\* decode_global_component returned
decode_world_entities(b, component_arrays, g, mem) ==
    IF ~g.ok THEN g
    ELSE LET nl == expect_newline(b, g.pos)
         IN IF ~nl.ok THEN Err
            ELSE world_of(component_arrays, g.val, decode_entity_array(b, nl.pos, mem))

\* decode_world from the end of the component arrays on, as being what the
\* loop over them returned
decode_world_global(b, as, mem) ==
    IF ~as.ok THEN as
    ELSE decode_world_entities(b, as.val, decode_global_component(b, as.pos, mem), mem)

\* decode_world as built with (checks) or without overflow checks, on a
\* machine with the memory mem
decode_world(b, p, checks, mem) ==
    LET h == decode_header_line(b, p)
    IN IF ~h.ok THEN Err
       ELSE IF Len(h.val) # 3 THEN Err
       ELSE IF h.val[1] # STR_WORLD THEN Err
       ELSE LET num_component_arrays == parse_u16(h.val[2])
                max_component_id == parse_u16(h.val[3])
            IN IF num_component_arrays = None THEN Err
               ELSE IF max_component_id = None THEN Err
               ELSE decode_world_global(b,
                        decode_world_arrays(b, h.pos, num_component_arrays[1],
                                            max_component_id[1], <<>>, {}, checks,
                                            mem),
                        mem)

---------------------------------------------------------------------------
(* Access to the records of a component array *)

\* u32::checked_add(1)
U32Inc(q) ==
    [overflow |-> q = <<255, 255, 255, 255>>,
     wrapped |-> IF q[4] < 255 THEN <<q[1], q[2], q[3], q[4] + 1>>
                 ELSE IF q[3] < 255 THEN <<q[1], q[2], q[3] + 1, 0>>
                 ELSE IF q[2] < 255 THEN <<q[1], q[2] + 1, 0, 0>>
                 ELSE IF q[1] < 255 THEN <<q[1] + 1, 0, 0, 0>>
                 ELSE <<0, 0, 0, 0>>]

\* get / get_mut without the test for a marker component
get_record_unguarded(array, idx) ==
    LET scheme_len == Len(array.scheme)
        start == U32Mul(idx, scheme_len)
        next_idx == U32Inc(idx)
        end == U32Mul(next_idx.wrapped, scheme_len)
    IN IF start.overflow THEN None
       ELSE IF next_idx.overflow THEN None
       ELSE IF end.overflow THEN None
       ELSE IF end.wrapped[1] >= 128 THEN None
       ELSE IF U32Nat(end.wrapped) > Len(array.values) THEN None
       ELSE Some(<<U32Nat(start.wrapped), U32Nat(end.wrapped)>>)

\* ComponentArray::get / get_mut: the range start..end of the record idx in
\* values (0-based, end excluded), or None
get_record(array, idx) ==
    LET scheme_len == Len(array.scheme)
        start == U32Mul(idx, scheme_len)
        next_idx == U32Inc(idx)
        end == U32Mul(next_idx.wrapped, scheme_len)
    IN IF scheme_len = 0 /\ idx # <<0, 0, 0, 0>> THEN None
       ELSE IF start.overflow THEN None
       ELSE IF next_idx.overflow THEN None
       ELSE IF end.overflow THEN None
       ELSE IF end.wrapped[1] >= 128 THEN None
       ELSE IF U32Nat(end.wrapped) > Len(array.values) THEN None
       ELSE Some(<<U32Nat(start.wrapped), U32Nat(end.wrapped)>>)

\* field_idx: the position (0-based) of the first field called name, or None
field_idx(scheme, name) ==
    LET at == { i \in 1..Len(scheme) : scheme[i] = name }
    IN IF at = {} THEN None
       ELSE Some((CHOOSE x \in at : \A y \in at : x <= y) - 1)

\* a lookup that gives the first value of the record for every known name
field_first(scheme, values, name) ==
    IF field_idx(scheme, name) = None THEN None ELSE Some(values[1])

\* ComponentRef::field / ComponentMut::field / field_mut: the value of the
\* field called name in the record values, or None
field(scheme, values, name) ==
    IF field_idx(scheme, name) = None THEN None
    ELSE Some(values[field_idx(scheme, name)[1] + 1])

\* get(idx) followed by field(name): None when there is no record
get_field(array, rec, name) ==
    IF rec = None THEN None
    ELSE field(array.scheme, SubSeq(array.values, rec[1][1] + 1, rec[1][2]), name)

---------------------------------------------------------------------------
(* The scripting host (lua.rs, lua/script.rs): systems and queries are the  *)
(* two HashMaps of lua::World, from an id to a script: [kind |-> "Lua"] or  *)
(* [kind |-> "Native", func |-> f], f naming the closure.  The world        *)
(* context behind ctx_ref is the variable world.                            *)

\* World::from_ctx_ref_with_lua: no system, no query
NewHost == [systems |-> <<>>, queries |-> <<>>, last |-> "new", result |-> "none"]

\* ScriptType::from_opt_system / from_opt_query on HashMap::get(id)
ScriptType_from_opt(m, id) == IF id \in DOMAIN m THEN m[id].kind ELSE "None"

\* HashMap::remove
map_remove(m, id) == [i \in DOMAIN m \ {id} |-> m[i]]

system_info(h, id) == ScriptType_from_opt(h.systems, id)

query_info(h, id) == ScriptType_from_opt(h.queries, id)

\* what run_system can return: Ok(false) without a system, Ok(true) after
\* the call, the error of a Lua call
run_system_results(h, id) ==
    IF id \notin DOMAIN h.systems THEN {"Ok(false)"}
    ELSE IF h.systems[id].kind = "Lua" THEN {"Ok(true)", "Err"}
    ELSE {"Ok(true)"}

\* what run_query can return: Ok(None) without a query, Ok(Some(q)) after
\* the call, the error of a Lua call
run_query_results(h, id) ==
    IF id \notin DOMAIN h.queries THEN {"Ok(None)"}
    ELSE IF h.queries[id].kind = "Lua" THEN {"Ok(Some)", "Err"}
    ELSE {"Ok(Some)"}

---------------------------------------------------------------------------
(* The world in use: loaded from a document, edited, saved, loaded again.   *)

MaxFailAt == 16

\* WORLD 2 5 / COMPONENT pos 0 3 x y / COMPONENT tag 5 0 / GLOBAL g h /
\* ENTITIES 3.  pos: (x = Idx 2, y = Int 7), (x = [Idx 1, [Idx 2], Some(Idx 0)],
\* y = Some(Idx 0)), (x = Idx 7, y = Invalid); g = Some([Idx 2]), h = Idx 1;
\* entity 0 has (0, 1) and (5, 0), entity 1 has (0, 0), entity 2 has (0, 2).
DocA ==
    <<87, 79, 82, 76, 68, 32, 50, 32, 53, 10, 67, 79, 77, 80, 79, 78, 69,
      78, 84, 32, 112, 111, 115, 32, 48, 32, 51, 32, 120, 32, 121, 10, 194,
      7, 147, 193, 145, 194, 173, 192, 173, 192, 199, 177, 10, 67, 79, 77,
      80, 79, 78, 69, 78, 84, 32, 116, 97, 103, 32, 53, 32, 48, 10, 10, 71,
      76, 79, 66, 65, 76, 32, 103, 32, 104, 10, 173, 145, 194, 193, 10, 69,
      78, 84, 73, 84, 73, 69, 83, 32, 51, 10, 2, 0, 1, 197, 1, 192, 1, 0, 2>>

\* WORLD 0 0 / GLOBAL / ENTITIES 2: entity 0 has (300, 70000), entity 1 has
\* no component.
DocB ==
    <<87, 79, 82, 76, 68, 32, 48, 32, 48, 10, 71, 76, 79, 66, 65, 76, 10,
      10, 69, 78, 84, 73, 84, 73, 69, 83, 32, 50, 10, 1, 134, 1, 44, 1, 17,
      112, 0>>

\* WORLD 0 0 / GLOBAL g / ENTITIES 1: g is an array of 256 entity ids, Idx 0
\* and Invalid in turn; entity 0 has no component.
DocC ==
    <<87, 79, 82, 76, 68, 32, 48, 32, 48, 10, 71, 76, 79, 66, 65, 76, 32,
      103, 10, 163, 0, 0, 1, 0>>
    \o [k \in 1..256 |-> IF k % 2 = 1 THEN 192 ELSE 177] \o
    <<10, 69, 78, 84, 73, 84, 73, 69, 83, 32, 49, 10, 0>>

\* WORLD 0 0 / GLOBAL / ENTITIES 4294967295, no record following
DocD ==
    <<87, 79, 82, 76, 68, 32, 48, 32, 48, 10, 71, 76, 79, 66, 65, 76, 10,
      10, 69, 78, 84, 73, 84, 73, 69, 83, 32, 52, 50, 57, 52, 57, 54, 55,
      50, 57, 53, 10>>

Docs == {DocA, DocB, DocC, DocD}

\* the values an edit assigns to a field
EditValues ==
    { VEntityId(Idx(U32(1))),
      VArray(<<VMaybe(Some(VEntityId(Idx(U32(0))))), VEntityId(Idx(U32(3)))>>) }

STR_x == <<120>>
STR_g == <<103>>
EditNames == {STR_x, STR_g}

\* the caller holds no result of to_writer any more
NoResult ==
    /\ out' = <<>>
    /\ res' = "none"
    /\ sink' = [fail_at |-> 0, room |-> None, n |-> 0, failed |-> FALSE, calls |-> 0]

\* the value codec of SpecValue and the decoders under test take no part
ValueIdle == UNCHANGED <<val, enc, dec, vpc, inp, ret, back, got, cpc, host>>

Init ==
    /\ world = EmptyWorld
    /\ out = <<>>
    /\ res = "none"
    /\ sink = [fail_at |-> 0, room |-> None, n |-> 0, failed |-> FALSE, calls |-> 0]
    /\ val = VBool(FALSE)
    /\ enc = <<>>
    /\ dec = Err
    /\ vpc = "idle"
    /\ inp = [kind |-> "none", bytes |-> <<>>]
    /\ ret = Err
    /\ back = <<>>
    /\ got = None
    /\ cpc = "idle"
    /\ host = NewHost

\* the program has ended in a panic or an abort
Crashed == res \in {"Panic", "Abort"}

\* the outcome r of a decode as the caller sees it
outcome_of(r) == IF r = Panic THEN "Panic" ELSE IF r = Abort THEN "Abort" ELSE "none"

\* World::from_reader on the bytes `doc` in a build with (checks) or without
\* overflow checks, on a machine with the memory mem: a new world, or a
\* decode error that leaves the caller with the world it had, or the end of
\* the program
FromReaderOf(doc, checks, mem) ==
    LET r == decode_world(doc, 0, checks, mem)
    IN /\ world' = IF r.ok THEN r.val ELSE world
       /\ out' = <<>>
       /\ res' = outcome_of(r)
       /\ sink' = [fail_at |-> 0, room |-> None, n |-> 0, failed |-> FALSE, calls |-> 0]
       /\ ValueIdle

\* World::from_reader on a document.  from_reader builds a new World from
\* the bytes alone, so loading a document over a world in use reaches the
\* states that loading it first reaches: the caller holds the empty world.
FromReader ==
    /\ ~Crashed
    /\ world = EmptyWorld
    /\ \E doc \in Docs, checks \in BOOLEAN, mem \in Mems :
          FromReaderOf(doc, checks, mem)

\* World::from_reader on the bytes the last to_writer call wrote
Reload ==
    /\ res # "none"
    /\ ~Crashed
    /\ \E checks \in BOOLEAN, mem \in Mems : FromReaderOf(out, checks, mem)

\* get_mut(idx), field_mut(name) and the assignment of v to the field
SetField ==
    \E id \in DOMAIN world.components, name \in EditNames, v \in EditValues :
        LET array == world.components[id]
            rec == get_record(array, <<0, 0, 0, 0>>)
            f == field_idx(array.scheme, name)
        IN /\ ~Crashed
           /\ rec # None
           /\ f # None
           /\ world' = [world EXCEPT
                           !.components[id].values[rec[1][1] + f[1] + 1] = v]
           /\ NoResult
           /\ ValueIdle

\* GlobalComponent::get_mut, field_mut(name) and the assignment of v
SetGlobalField ==
    \E name \in EditNames, v \in EditValues :
        LET f == field_idx(world.global.scheme, name)
        IN /\ ~Crashed
           /\ f # None
           /\ world' = [world EXCEPT !.global.values[f[1] + 1] = v]
           /\ NoResult
           /\ ValueIdle

\* the tombstone of entity i is set; positions do not shift
DeleteEntity ==
    \E i \in 1..Len(world.entities) :
        /\ ~Crashed
        /\ ~world.entities[i].is_deleted
        /\ world' = [world EXCEPT !.entities[i].is_deleted = TRUE]
        /\ NoResult
         /\ ValueIdle

\* the room of the byte slices written to
Rooms == {3, 64, 99}

\* the writers: one that takes everything, those whose write() call number
\* fail_at fails, and the byte slices
Writers ==
    { [fail_at |-> k, room |-> None] : k \in 0..MaxFailAt }
    \cup { [fail_at |-> 0, room |-> Some(r)] : r \in Rooms }

\* the result of to_writer as the caller sees it
result_of(r) == IF r.es.panicked THEN "Panic" ELSE IF r.ok THEN "Ok" ELSE "Err"

\* the to_writer calls made in a row on a world, at most
MaxCalls == 2

\* World::to_writer on a writer, in a build with (checks) or without debug
\* assertions.  The caller holds no result, or holds the bytes of a call
\* that failed no write and saves the world once more; sink.calls counts
\* the calls made in a row.
ToWriter ==
    \E writer \in Writers, checks \in BOOLEAN :
        LET r == encode_world(NewState(writer.fail_at, writer.room), world, checks)
        IN /\ \/ res = "none"
              \/ /\ res = "Ok" /\ sink.fail_at = 0 /\ sink.room = None
                 /\ sink.calls < MaxCalls
           /\ out' = r.es.out
           /\ res' = result_of(r)
           /\ sink' = [fail_at |-> writer.fail_at, room |-> writer.room,
                       n |-> r.es.n, failed |-> r.es.failed,
                       calls |-> sink.calls + 1]
           /\ world' = world_after_encode(world)
           /\ ValueIdle

Next == FromReader \/ Reload \/ SetField \/ SetGlobalField \/ DeleteEntity \/ ToWriter

Spec == Init /\ [][Next]_vars

---------------------------------------------------------------------------
(* The value codec under test: encode_value under the identity rewrite,    *)
(* then decode_value on the bytes written (test.rs:13-34).                 *)

MaxArrayLen == 257
MaxBytesLen == 257
MaxDepth == 3

TestInts ==
    { I64(n) : n \in {0, 1, 127, 128, 200, 255, 256, 32767, 32768, 65535, 65536,
                      2147483647, -1, -56, -128, -129, -32768, -32769, -2147483647} }
    \cup { <<255, 255, 255, 255, 128, 0, 0, 0>>,      \* -2^31
            <<0, 0, 0, 0, 128, 0, 0, 0>>,              \* 2^31
            <<255, 255, 255, 255, 127, 255, 255, 255>>, \* -2^31 - 1
            <<127, 255, 255, 255, 255, 255, 255, 255>>, \* i64::MAX
            <<128, 0, 0, 0, 0, 0, 0, 0>> }              \* i64::MIN

TestEntityIds ==
    { Invalid, Idx(<<171, 205, 239, 1>>), Idx(<<255, 255, 255, 255>>) }
    \cup { Idx(U32(n)) : n \in {0, 1, 63, 64, 255, 256, 65535, 65536, 16777216} }

TestFloats ==
    { <<0, 0, 0, 0, 0, 0, 0, 0>>,              \* 0.0
      <<128, 0, 0, 0, 0, 0, 0, 0>>,            \* -0.0
      <<63, 240, 0, 0, 0, 0, 0, 0>>,           \* 1.0
      <<64, 9, 33, 251, 96, 0, 0, 0>>,         \* PI_F32 as f64
      <<64, 9, 33, 251, 84, 68, 45, 24>>,      \* PI_F64
      <<127, 240, 0, 0, 0, 0, 0, 0>>,          \* +inf
      <<54, 160, 0, 0, 0, 0, 0, 0>>,           \* 2^-149, the least f32 subnormal
      <<56, 4, 0, 0, 0, 0, 0, 0>>,             \* 1.25 * 2^-127, an f32 subnormal
      <<54, 144, 0, 0, 0, 0, 0, 0>>,           \* 2^-150, below every f32
      <<71, 240, 0, 0, 0, 0, 0, 0>>,           \* 2^128, above every f32
      <<0, 0, 0, 0, 0, 0, 0, 1>> }             \* the least f64 subnormal

TestScalars ==
    { VBool(FALSE), VBool(TRUE) }
    \cup { VInt(i) : i \in TestInts }
    \cup { VEntityId(e) : e \in TestEntityIds }
    \cup { VFloat(x) : x \in TestFloats }

\* the k-th element of a test array
TestElem(k) ==
    CASE k % 4 = 0 -> VInt(I64(k * k))
      [] k % 4 = 1 -> VEntityId(Idx(U32(k)))
      [] k % 4 = 2 -> VMaybe(Some(VEntityId(Idx(U32(k \div 2)))))
      [] k % 4 = 3 -> VBool(TRUE)

TestArrays == { VArray([k \in 1..n |-> TestElem(k)]) : n \in 0..MaxArrayLen }

\* test.rs:8-11 get_bytes, for every length
TestBytes == { VBytes([k \in 1..n |-> ((k - 1) * (k - 1)) % 256]) : n \in 0..MaxBytesLen }

RECURSIVE Nested(_, _)
Nested(v, d) ==
    IF d = 0 THEN {v}
    ELSE LET inner == Nested(v, d - 1)
         IN inner \cup { VArray(<<w>>) : w \in inner }
                  \cup { VArray(<<w, VMaybe(None), w>>) : w \in inner }
                  \cup { VMaybe(Some(w)) : w \in inner }

TestNested ==
    UNION { Nested(v, MaxDepth) :
              v \in { VInt(I64(1)), VEntityId(Idx(U32(2))), VMaybe(None), VArray(<<>>) } }

TestValues == TestScalars \cup TestArrays \cup TestBytes \cup TestNested

InitWorldIdle ==
    /\ world = EmptyWorld
    /\ out = <<>>
    /\ res = "none"
    /\ sink = [fail_at |-> 0, room |-> None, n |-> 0, failed |-> FALSE, calls |-> 0]
    /\ host = NewHost

\* no decoder is under test
InitDecodersIdle ==
    /\ inp = [kind |-> "none", bytes |-> <<>>]
    /\ ret = Err
    /\ back = <<>>
    /\ got = None
    /\ cpc = "idle"

DecodersIdle == UNCHANGED <<inp, ret, back, got, cpc, host>>

InitValue ==
    /\ InitWorldIdle
    /\ InitDecodersIdle
    /\ val \in TestValues
    /\ enc = <<>>
    /\ dec = Err
    /\ vpc = "start"

\* test.rs:17-21 encode_value
EncodeValue ==
    /\ vpc = "start"
    /\ enc' = Flatten(encode_value(val, IdentityTransform))
    /\ vpc' = "encoded"
    /\ UNCHANGED <<world, out, res, sink, val, dec>>
    /\ DecodersIdle

\* test.rs:13-15 decode_value
DecodeValue ==
    /\ vpc = "encoded"
    /\ \E mem \in Mems : dec' = decode_value(enc, 0, mem)
    /\ vpc' = "decoded"
    /\ UNCHANGED <<world, out, res, sink, val, enc>>
    /\ DecodersIdle

NextValue == EncodeValue \/ DecodeValue

SpecValue == InitValue /\ [][NextValue]_vars

---------------------------------------------------------------------------
(* Properties of the value codec, under SpecValue *)

(* C1: decoding the bytes encode_value wrote for v under the identity       *)
(* rewrite succeeds and returns a value equal to v.                         *)
C1_RoundTrip == vpc = "decoded" => dec.ok /\ dec.val = val

\* the header the format gives to an array of len elements
ArrayHeader(len) ==
    IF len < 16 THEN <<144 + len>>
    ELSE IF len <= 255 THEN <<162, len>>
    ELSE <<163>> \o U32(len)

\* the header the format gives to a byte string of len bytes
BytesHeader(len) ==
    IF len < 16 THEN <<128 + len>>
    ELSE IF len <= 255 THEN <<160, len>>
    ELSE <<161>> \o U32(len)

\* the encodings of the elements vs, in order, under the identity rewrite
ElementBytes(vs) ==
    Flatten([k \in 1..Len(vs) |-> Flatten(encode_value(vs[k], IdentityTransform))])

(* C9: the bytes written for Array(vs) are the tag 0x90+len (len < 16), or  *)
(* 0xA2 and a 1-byte length (16 <= len <= 255), or 0xA3 and a 4-byte        *)
(* big-endian length (len >= 256), followed by the encodings of the         *)
(* elements in order.                                                       *)
C9_ArrayHeader ==
    vpc # "start" /\ val[1] = "Array" =>
        enc = ArrayHeader(Len(val[2])) \o ElementBytes(val[2])

(* C10: the bytes written for Bytes(bs) are the tag 0x80+len (len < 16), or *)
(* 0xA0 and a 1-byte length (16 <= len <= 255), or 0xA1 and a 4-byte        *)
(* big-endian length (len >= 256), followed by the bytes of bs unchanged.   *)
C10_BytesHeader ==
    vpc # "start" /\ val[1] = "Bytes" => enc = BytesHeader(Len(val[2])) \o val[2]

\* a byte string of 256 bytes has been written with the 32-bit length form
C10_Witness ==
    /\ vpc = "encoded"
    /\ val[1] = "Bytes"
    /\ Len(val[2]) = 256
    /\ SubSeq(enc, 1, 5) = <<161, 0, 0, 1, 0>>
    /\ SubSeq(enc, 6, Len(enc)) = val[2]

\* the i64 i lies in the range of a signed integer of k bytes
FitsSigned(i, k) ==
    \A j \in 1..(8 - k) : i[j] = (IF i[8 - k + 1] >= 128 THEN 255 ELSE 0)

\* the smallest form of the format that holds the i64 i
IntForm(i) ==
    IF FitsSigned(i, 1) /\ i[8] < 128 THEN <<i[8]>>
    ELSE IF FitsSigned(i, 1) THEN <<168, i[8]>>
    ELSE IF FitsSigned(i, 2) THEN <<169, i[7], i[8]>>
    ELSE IF FitsSigned(i, 4) THEN <<170, i[5], i[6], i[7], i[8]>>
    ELSE <<171>> \o i

(* C11: the bytes written for Int(i) are the single byte i (0 <= i < 128),  *)
(* or 0xA8 and 1 byte (-128 <= i < 0), or 0xA9 and 2 big-endian bytes (i    *)
(* fits 16 signed bits), or 0xAA and 4 bytes (i fits 32 signed bits), or    *)
(* 0xAB and 8 bytes; Int(127) is 7F and Int(128) is A9 00 80.               *)
C11_IntForm ==
    /\ vpc # "start" /\ val[1] = "Int" => enc = IntForm(val[2])
    /\ vpc # "start" /\ val = VInt(I64(127)) => enc = <<127>>
    /\ vpc # "start" /\ val = VInt(I64(128)) => enc = <<169, 0, 128>>

\* Int(128) has been written as A9 00 80
C11_Witness ==
    /\ vpc = "encoded"
    /\ val = VInt(I64(128))
    /\ enc = <<169, 0, 128>>

\* the form of the format for the entity id id
EntityIdForm(id) ==
    IF ~IsIdx(id) THEN <<177>>
    ELSE LET i == id[2]
         IN IF i[1] = 0 /\ i[2] = 0 /\ i[3] = 0
            THEN (IF i[4] < 64 THEN <<192 + i[4]>> ELSE <<174, i[4]>>)
            ELSE IF i[1] = 0 /\ i[2] = 0 THEN <<175, i[3], i[4]>>
            ELSE <<176>> \o i

(* C12: the bytes written for EntityId(Idx(i)) under the identity rewrite   *)
(* are 0xC0+i (i < 64), or 0xAE and 1 byte (64 <= i <= 255), or 0xAF and 2  *)
(* big-endian bytes (256 <= i <= 65535), or 0xB0 and 4 big-endian bytes;    *)
(* EntityId(Invalid) is written as 0xB1.                                    *)
C12_EntityIdForm ==
    vpc # "start" /\ val[1] = "EntityId" => enc = EntityIdForm(val[2])

\* Idx(63) has been written inline, as FF
C12_Witness ==
    /\ vpc = "encoded"
    /\ val = VEntityId(Idx(U32(63)))
    /\ enc = <<255>>

(* C25, as stated: encode_value(Int(200)) writes the tag 0xA8 and the int8  *)
(* byte 0xC8.                                                               *)
C25_Int200AsInt8 ==
    vpc = "encoded" /\ val = VInt(I64(200)) => enc = <<168, 200>>

(* C25, amended: 200 does not fit an int8, so encode_value(Int(200)) writes *)
(* the tag 0xA9 and the 16-bit big-endian bytes 00 C8; the bytes A8 C8 are  *)
(* what it writes for Int(-56), and what decode_value reads as Int(-56).    *)
C25_Int200AsInt16 ==
    /\ vpc = "encoded" /\ val = VInt(I64(200)) => enc = <<169, 0, 200>>
    /\ vpc = "encoded" /\ val = VInt(I64(-56)) => enc = <<168, 200>>
    /\ decode_value(<<168, 200>>, 0, None) = Ok(VInt(I64(-56)), 2)

\* Int(200) has been encoded in three bytes
C25_Witness ==
    /\ vpc = "encoded"
    /\ val = VInt(I64(200))
    /\ enc = <<169, 0, 200>>

---------------------------------------------------------------------------
(* decode_value under test: decode_value on given bytes, then encode_value  *)
(* under the identity rewrite on the value returned (test.rs:23-34).        *)

\* the minimal encoding the format gives to the value v
RECURSIVE Canon(_)
Canon(v) ==
    CASE v[1] = "Bool" -> (IF v[2] THEN <<165>> ELSE <<164>>)
      [] v[1] = "Int" -> IntForm(v[2])
      [] v[1] = "Float" ->
            (IF f64_as_f32_exact(v[2]) # None
             THEN <<166>> \o f64_as_f32_exact(v[2])[1]
             ELSE <<167>> \o v[2])
      [] v[1] = "Bytes" -> BytesHeader(Len(v[2])) \o v[2]
      [] v[1] = "Array" ->
            ArrayHeader(Len(v[2])) \o Flatten([k \in 1..Len(v[2]) |-> Canon(v[2][k])])
      [] v[1] = "Maybe" ->
            (IF v[2] = None THEN <<172>> ELSE <<173>> \o Canon(v[2][1]))
      [] v[1] = "EntityId" -> EntityIdForm(v[2])

MinimalInputs ==
    { [kind |-> "minimal", bytes |-> Canon(v), value |-> v] : v \in TestValues }

\* encodings longer than the minimal one, each with the value it stands for
NonMinimalInputs ==
    { [kind |-> "nonminimal", bytes |-> x[1], value |-> x[2]] : x \in
        { <<<<168, 127>>, VInt(I64(127))>>,
          <<<<162, 0>>, VArray(<<>>)>>,
          <<<<174, 5>>, VEntityId(Idx(U32(5)))>>,
          <<<<168, 0>>, VInt(I64(0))>>,
          <<<<169, 0, 5>>, VInt(I64(5))>>,
          <<<<169, 255, 128>>, VInt(I64(-128))>>,
          <<<<170, 0, 0, 127, 255>>, VInt(I64(32767))>>,
          <<<<170, 255, 255, 255, 255>>, VInt(I64(-1))>>,
          <<<<171, 0, 0, 0, 0, 0, 0, 0, 128>>, VInt(I64(128))>>,
          <<<<171, 255, 255, 255, 255, 128, 0, 0, 0>>,
            VInt(<<255, 255, 255, 255, 128, 0, 0, 0>>)>>,
          <<<<167, 63, 240, 0, 0, 0, 0, 0, 0>>, VFloat(<<63, 240, 0, 0, 0, 0, 0, 0>>)>>,
          <<<<160, 0>>, VBytes(<<>>)>>,
          <<<<160, 3, 97, 98, 99>>, VBytes(<<97, 98, 99>>)>>,
          <<<<161, 0, 0, 0, 3, 97, 98, 99>>, VBytes(<<97, 98, 99>>)>>,
          <<<<161, 0, 0, 0, 16>> \o [k \in 1..16 |-> k],
            VBytes([k \in 1..16 |-> k])>>,
          <<<<162, 2, 1, 172>>, VArray(<<VInt(I64(1)), VMaybe(None)>>)>>,
          <<<<163, 0, 0, 0, 0>>, VArray(<<>>)>>,
          <<<<163, 0, 0, 0, 2, 168, 1, 174, 2>>,
            VArray(<<VInt(I64(1)), VEntityId(Idx(U32(2)))>>)>>,
          <<<<163, 0, 0, 0, 17>> \o [k \in 1..17 |-> 165],
            VArray([k \in 1..17 |-> VBool(TRUE)])>>,
          <<<<175, 0, 5>>, VEntityId(Idx(U32(5)))>>,
          <<<<175, 0, 255>>, VEntityId(Idx(U32(255)))>>,
          <<<<176, 0, 0, 0, 63>>, VEntityId(Idx(U32(63)))>>,
          <<<<176, 0, 0, 255, 255>>, VEntityId(Idx(U32(65535)))>>,
          <<<<173, 168, 127>>, VMaybe(Some(VInt(I64(127))))>>,
          <<<<145, 173, 174, 5>>,
            VArray(<<VMaybe(Some(VEntityId(Idx(U32(5)))))>>)>> } }

\* the values whose encodings are cut short
CutValues ==
    TestScalars \cup TestNested
    \cup { VBytes(<<116, 101, 115, 116, 115>>),
           VBytes([k \in 1..16 |-> k]),
           VBytes([k \in 1..256 |-> k % 256]),
           VArray([k \in 1..7 |-> VInt(I64(100 + k))]),
           VArray([k \in 1..16 |-> VBool(TRUE)]),
           VArray([k \in 1..256 |-> VBool(FALSE)]),
           VArray(<<VArray(<<VMaybe(Some(VInt(I64(300))))>>)>>) }

\* the input ends before the value is complete: every proper prefix of the
\* encoding of a value, the empty input among them
CutInputs ==
    UNION { { SubSeq(Canon(v), 1, n) : n \in 0..(Len(Canon(v)) - 1) } : v \in CutValues }

\* a reserved tag, alone, before other bytes, and where a nested value starts
ReservedInputs ==
    UNION { { <<t>>, <<t, 0>>, <<t, 10, 1, 2>>, <<145, t>>, <<173, t>>, <<162, 2, 1, t>>,
              <<147, 1, 173, 145, t, 2>> } : t \in 178..191 }

\* a length prefix far beyond the input: arrays of 2^20, 468750000,
\* 526538111, 2^29, 2^31 - 1 and 2^32 - 1 elements, alone and nested, byte
\* strings of 2^31 - 1 and 2^32 - 1 bytes
HugeInputs ==
    { <<163, 0, 16, 0, 0>>, <<163, 0, 16, 0, 0, 165>>,
      <<163, 27, 240, 142, 176>>, <<163, 31, 98, 85, 127>>,
      <<163, 32, 0, 0, 0>>, <<163, 32, 0, 0, 0, 165>>,
      <<163, 127, 255, 255, 255>>, <<163, 255, 255, 255, 255, 1, 2>>,
      <<145, 163, 32, 0, 0, 0>>, <<173, 163, 128, 0, 0, 0>>,
      <<161, 127, 255, 255, 255>>, <<161, 255, 255, 255, 255, 1>> }

MalformedInputs ==
    { [kind |-> "malformed", bytes |-> b] :
        b \in CutInputs \cup ReservedInputs \cup HugeInputs
              \cup { <<133, 116, 101, 115, 116>>,
                     <<151, 102, 111, 111, 98, 97, 114>>,
                     <<169, 0>>, <<173>>, <<173, 173, 173, 173>> } }

ValueInputs == MinimalInputs \cup NonMinimalInputs \cup MalformedInputs

\* neither the world nor the value codec of SpecValue takes part
InitOthersIdle ==
    /\ InitWorldIdle
    /\ val = VBool(FALSE)
    /\ enc = <<>>
    /\ dec = Err
    /\ vpc = "idle"

OthersIdle == UNCHANGED <<world, out, res, sink, val, enc, dec, vpc, host>>

InitDecode ==
    /\ InitOthersIdle
    /\ inp \in ValueInputs
    /\ ret = Err
    /\ back = <<>>
    /\ got = None
    /\ cpc = "start"

\* test.rs:13-15 decode_value
DecodeInput ==
    /\ cpc = "start"
    /\ \E mem \in Mems : ret' = decode_value(inp.bytes, 0, mem)
    /\ cpc' = "decoded"
    /\ UNCHANGED <<inp, back, got>>
    /\ OthersIdle

\* test.rs:17-21 encode_value, on the value decoded
EncodeBack ==
    /\ cpc = "decoded"
    /\ ret.ok
    /\ back' = Flatten(encode_value(ret.val, IdentityTransform))
    /\ cpc' = "encoded"
    /\ UNCHANGED <<inp, ret, got>>
    /\ OthersIdle

NextDecode == DecodeInput \/ EncodeBack

SpecDecode == InitDecode /\ [][NextDecode]_vars

(* C13: decode_value accepts a non-minimal encoding and returns the value   *)
(* it returns for the minimal one (A8 7F gives Int(127), A2 00 the empty    *)
(* Array, AE 05 Idx(5)); encode_value of the value decoded from a minimal   *)
(* encoding b writes b again.                                               *)
C13_CanonicalStable ==
    /\ cpc # "start" /\ inp.kind = "nonminimal" =>
           /\ ret.ok
           /\ ret.val = inp.value
           /\ ret.val = decode_value(Canon(inp.value), 0, None).val
    /\ cpc # "start" /\ inp.kind = "minimal" => ret.ok
    /\ cpc = "encoded" /\ inp.kind = "minimal" => back = inp.bytes

(* C14: decode_value returns an error on a reserved tag 0xB2..0xBF, on the  *)
(* empty input, and on an input that ends before the payload its tag or     *)
(* length prefix announces is complete, at any depth.                       *)
C14_MalformedRejected ==
    cpc # "start" /\ inp.kind = "malformed" => ret = Err

\* 0x97 followed by 6 values, 7 announced, has been rejected
C14_Witness ==
    /\ cpc = "decoded"
    /\ inp.kind = "malformed"
    /\ inp.bytes = <<151, 102, 111, 111, 98, 97, 114>>
    /\ ret = Err

---------------------------------------------------------------------------
(* Component indices: encode_component_idx, then decode_component_idx on    *)
(* the bytes written (test.rs:374-440).                                     *)

TestIds == {0, 1, 63, 64, 200, 255, 256, 4660, 65535}

TestIdxs ==
    { U32(0), U32(1), U32(255), U32(256), U32(65535), U32(65536),
      <<0, 255, 255, 255>>, <<1, 0, 0, 0>>, <<171, 205, 239, 1>>,
      <<255, 255, 255, 255>> }

TestComponentIdxs == { [id |-> i, idx |-> x] : i \in TestIds, x \in TestIdxs }

InitIdx ==
    /\ InitWorldIdle
    /\ InitDecodersIdle
    /\ val \in TestComponentIdxs
    /\ enc = <<>>
    /\ dec = Err
    /\ vpc = "start"

EncodeComponentIdx ==
    /\ vpc = "start"
    /\ enc' = Flatten(encode_component_idx(val))
    /\ vpc' = "encoded"
    /\ UNCHANGED <<world, out, res, sink, val, dec>>
    /\ DecodersIdle

DecodeComponentIdx ==
    /\ vpc = "encoded"
    /\ dec' = decode_component_idx(enc, 0)
    /\ vpc' = "decoded"
    /\ UNCHANGED <<world, out, res, sink, val, enc>>
    /\ DecodersIdle

NextIdx == EncodeComponentIdx \/ DecodeComponentIdx

SpecIdx == InitIdx /\ [][NextIdx]_vars

(* C15: decode_component_idx on the bytes encode_component_idx wrote for    *)
(* {id, idx} succeeds, reads all of them and returns exactly {id, idx}.     *)
C15_ComponentIdxRoundTrip ==
    vpc = "decoded" => dec.ok /\ dec.val = val /\ dec.pos = Len(enc)

\* a 16-bit id with a three-byte index has made the round trip
C15_Witness ==
    /\ vpc = "decoded"
    /\ val = [id |-> 4660, idx |-> <<0, 255, 255, 255>>]
    /\ enc = <<134, 18, 52, 255, 255, 255>>
    /\ dec.ok /\ dec.val = val

IdClass(id) == IF id < 64 THEN "U6" ELSE IF id <= 255 THEN "U8" ELSE "U16"

IdxClass(idx) ==
    IF idx = <<0, 0, 0, 0>> THEN "Zero"
    ELSE IF idx[1] = 0 /\ idx[2] = 0 /\ idx[3] = 0 THEN "U8"
    ELSE IF idx[1] = 0 /\ idx[2] = 0 THEN "U16"
    ELSE IF idx[1] = 0 THEN "U24"
    ELSE "U32"

\* the tag of each pair of classes
ClassTag(c) ==
    LET i == IdClass(c.id)
        x == IdxClass(c.idx)
    IN IF i = "U6" /\ x = "Zero" THEN 192 + c.id
       ELSE IF i = "U6" /\ x = "U8" THEN c.id
       ELSE IF i = "U6" /\ x = "U16" THEN 64 + c.id
       ELSE IF x = "U24" /\ i # "U16" THEN 130
       ELSE IF x = "U32" /\ i # "U16" THEN 131
       ELSE IF i = "U8" THEN (IF x = "Zero" THEN 136 ELSE IF x = "U8" THEN 128 ELSE 129)
       ELSE (CASE x = "Zero" -> 137 [] x = "U8" -> 132 [] x = "U16" -> 133
               [] x = "U24" -> 134 [] x = "U32" -> 135)

\* byte sequences made of a tag, the id in 0, 1 or 2 bytes and the low bytes
\* of the idx in 0 to 4 bytes
Candidates(c) ==
    { <<t>> \o i \o x :
        t \in 0..255,
        i \in { <<>>, <<c.id % 256>>, u16_to_be_bytes(c.id) },
        x \in { SubSeq(c.idx, k, 4) : k \in 1..5 } }

\* those that decode_component_idx reads whole as the pair c
SamePair(c) ==
    { a \in Candidates(c) : decode_component_idx(a, 0) = Ok(c, Len(a)) }

(* C16: encode_component_idx writes one byte sequence for a pair, its tag   *)
(* fixed by the class of the id (below 0x40, up to 0xFF, above) and of the  *)
(* idx (0, up to 0xFF, up to 0xFFFF, below 2^24, above), and no longer than *)
(* any byte sequence that decode_component_idx maps to the same pair.       *)
C16_ShortestForm ==
    vpc = "encoded" =>
        /\ enc[1] = ClassTag(val)
        /\ enc \in SamePair(val)
        /\ \A a \in SamePair(val) : Len(enc) <= Len(a)

\* an id below 0x40 with a three-byte index: 0x82, the id, three bytes,
\* with the longer forms 0x83, 0x86 and 0x87 decoding to the same pair
C16_Witness ==
    /\ vpc = "encoded"
    /\ val = [id |-> 63, idx |-> <<0, 255, 255, 255>>]
    /\ enc = <<130, 63, 255, 255, 255>>
    /\ Cardinality(SamePair(val)) = 4

---------------------------------------------------------------------------
(* Component blocks: decode_component_array / decode_global_component on a  *)
(* header line and the values after it, then get / get_mut on the array     *)
(* decoded (test.rs:175-372).                                               *)

RECURSIVE JoinTokens(_, _)
JoinTokens(ts, sep) ==
    IF ts = <<>> THEN <<>>
    ELSE IF Len(ts) = 1 THEN ts[1]
    ELSE ts[1] \o sep \o JoinTokens(Tail(ts), sep)

\* a block under test: the tokens of its header line, joined by sep, ended
\* by a newline when terminated, followed by the encodings of vals; idv and
\* nv are the numbers the id and count tokens stand for, None when a token
\* is not a number of its range
BlockInput(block, tokens, sep, terminated, vals, idv, nv) ==
    [block |-> block,
     tokens |-> tokens,
     line |-> JoinTokens(tokens, sep),
     sep |-> sep,
     terminated |-> terminated,
     vals |-> vals,
     idv |-> idv,
     nv |-> nv,
     scheme |-> IF block = "array" THEN SubSeq(tokens, 5, Len(tokens))
                ELSE SubSeq(tokens, 2, Len(tokens)),
     bytes |-> JoinTokens(tokens, sep)
               \o (IF terminated THEN <<NL>> ELSE <<>>)
               \o Flatten([k \in 1..Len(vals) |-> Canon(vals[k])])]

STR_foo == <<102, 111, 111>>

\* schemes of distinct names: none, x, x y, a b c, a b c d e f
GoodSchemes ==
    { <<>>, << <<120>> >>, << <<120>>, <<121>> >>, << <<97>>, <<98>>, <<99>> >>,
      << <<97>>, <<98>>, <<99>>, <<100>>, <<101>>, <<102>> >> }

\* schemes with a name at two positions: a a, a b a, a b c d a f, b a a,
\* a a a, x y z y
DupSchemes ==
    { << <<97>>, <<97>> >>, << <<97>>, <<98>>, <<97>> >>,
      << <<97>>, <<98>>, <<99>>, <<100>>, <<97>>, <<102>> >>,
      << <<98>>, <<97>>, <<97>> >>, << <<97>>, <<97>>, <<97>> >>,
      << <<120>>, <<121>>, <<122>>, <<121>> >> }

\* the values that follow a header, in document order
BodyValues ==
    << VInt(I64(0)), VInt(I64(1)), VInt(I64(4660)), VMaybe(None), VBool(TRUE),
       VInt(I64(5)), VEntityId(Idx(U32(3))), VBytes(<<1, 2>>) >>

MaxBody == 7

BodyLens == {0, 1, 2, 3, 4, 6, MaxBody}

Body(m) == SubSeq(BodyValues, 1, m)

\* id tokens with the id they stand for: 0, 31415, 65535, 007; and 65536,
\* -1, 1x, 99999999999, 1.5
IdCases ==
    { <<fmt(0), Some(0)>>, <<fmt(31415), Some(31415)>>, <<fmt(65535), Some(65535)>>,
      <<<<48, 48, 55>>, Some(7)>>,
      <<fmt(65536), None>>, <<<<45, 49>>, None>>, <<<<49, 120>>, None>>,
      <<<<57, 57, 57, 57, 57, 57, 57, 57, 57, 57, 57>>, None>>,
      <<<<49, 46, 53>>, None>> }

\* count tokens that are not a number of 32 bits: 4294967296, -1, x, 3.0,
\* 99999999999
BadCounts ==
    { <<52, 50, 57, 52, 57, 54, 55, 50, 57, 54>>, <<45, 49>>, <<120>>, <<51, 46, 48>>,
      <<57, 57, 57, 57, 57, 57, 57, 57, 57, 57, 57>> }

\* counts whose product with the scheme length passes 2^32, each with its
\* token, its scheme and a number of values present:
\* 2147483648 x y, 2147483649 x y, 1431655766 a b c
WideCases ==
    { << <<50, 49, 52, 55, 52, 56, 51, 54, 52, 56>>, <<128, 0, 0, 0>>,
         << <<120>>, <<121>> >>, m >> : m \in {0, 2} }
    \cup { << <<50, 49, 52, 55, 52, 56, 51, 54, 52, 57>>, <<128, 0, 0, 1>>,
             << <<120>>, <<121>> >>, m >> : m \in {0, 2, 4} }
    \cup { << <<49, 52, 51, 49, 54, 53, 53, 55, 54, 54>>, <<85, 85, 85, 86>>,
             << <<97>>, <<98>>, <<99>> >>, m >> : m \in {1, 2, 3} }

\* a count the input cannot hold, its product with the scheme length below
\* 2^32: 1000000000 x, with a number of values present
HugeCases ==
    { << fmt(1000000000), U32(1000000000), << <<120>> >>, m >> : m \in {0, 1} }

\* marker headers with every kind of count: 4294967295, 2147483648, 65536, 5
MarkerCases ==
    { << <<52, 50, 57, 52, 57, 54, 55, 50, 57, 53>>, <<255, 255, 255, 255>> >>,
      << <<50, 49, 52, 55, 52, 56, 51, 54, 52, 56>>, <<128, 0, 0, 0>> >>,
      << fmt(65536), U32(65536) >>, << fmt(5), U32(5) >> }

ArrayInputs ==
    \* well-formed tokens, the scheme with or without a duplicate
    { BlockInput("array", <<STR_COMPONENT, STR_foo, fmt(7), fmt(n)>> \o sch, <<SP>>,
                 TRUE, Body(m), Some(7), Some(U32(n))) :
        n \in 0..3, sch \in GoodSchemes \cup DupSchemes, m \in BodyLens }
    \cup { BlockInput("array", <<STR_COMPONENT, STR_foo, fmt(0), w[1]>> \o w[3], <<SP>>,
                      TRUE, Body(w[4]), Some(0), Some(w[2])) :
             w \in WideCases \cup HugeCases }
    \cup { BlockInput("array", <<STR_COMPONENT, STR_foo, fmt(0), w[1]>>, <<SP>>,
                      TRUE, Body(m), Some(0), Some(w[2])) :
             w \in MarkerCases, m \in {0, 2} }
    \* the id token
    \cup { BlockInput("array", <<STR_COMPONENT, STR_foo, i[1], fmt(0)>> \o sch, <<SP>>,
                      TRUE, <<>>, i[2], Some(U32(0))) :
             i \in IdCases, sch \in { <<>>, << <<97>> >> } }
    \* the count token
    \cup { BlockInput("array", <<STR_COMPONENT, STR_foo, fmt(0), c>> \o sch, <<SP>>,
                      TRUE, <<>>, Some(0), None) :
             c \in BadCounts, sch \in { <<>>, << <<97>> >> } }
    \* too few tokens, with and without the newline
    \cup { BlockInput("array", SubSeq(<<STR_COMPONENT, STR_foo, fmt(0), fmt(0)>>, 1, k),
                      <<SP>>, t, Body(m), Some(0), Some(U32(0))) :
             k \in 0..3, t \in BOOLEAN, m \in {0, 2} }
    \* the signature
    \cup { BlockInput("array", <<sig, STR_foo, fmt(0), fmt(0)>> \o sch, <<SP>>,
                      TRUE, <<>>, Some(0), Some(U32(0))) :
             sig \in { <<84, 78, 69, 78, 79, 80, 77, 79, 67>>, STR_GLOBAL,
                       Append(STR_COMPONENT, 83), SubSeq(STR_COMPONENT, 1, 8),
                       <<99, 111, 109, 112, 111, 110, 101, 110, 116>> },
             sch \in { <<>>, << <<97>> >> } }
    \* no newline after the header
    \cup { BlockInput("array", <<STR_COMPONENT, STR_foo, fmt(0), fmt(n)>> \o sch, <<SP>>,
                      FALSE, Body(m), Some(0), Some(U32(n))) :
             n \in {0, 1}, sch \in GoodSchemes, m \in {0, 2} }
    \* a byte of 0x80 or more in the name, in the scheme, alone
    \cup { BlockInput("array", <<STR_COMPONENT, nm, fmt(0), fmt(0)>> \o sch, <<SP>>,
                      TRUE, <<>>, Some(0), Some(U32(0))) :
             nm \in { <<193, 161, 102, 111, 111>>, <<128>>, <<102, 255>> },
             sch \in { <<>>, << <<97>> >> } }
    \cup { BlockInput("array", <<STR_COMPONENT, STR_foo, fmt(0), fmt(0), <<97>>, <<98, 200>>>>,
                      <<SP>>, TRUE, <<>>, Some(0), Some(U32(0))) }
    \* a field that holds an array of 256 elements
    \cup { BlockInput("array", <<STR_COMPONENT, STR_foo, fmt(0), fmt(1), <<120>>>>, <<SP>>,
                      TRUE, <<VArray([k \in 1..256 |-> VBool(TRUE)])>>,
                      Some(0), Some(U32(1))) }
    \* other separators, other names
    \cup { BlockInput("array", <<STR_COMPONENT, nm, fmt(21718), fmt(n)>> \o sch, sep,
                      TRUE, Body(m), Some(21718), Some(U32(n))) :
             nm \in { <<102, 111, 111, 33>>, <<102, 0, 98>>, <<50>> },
             n \in {0, 1}, sch \in { <<>>, << <<120>>, <<121>> >> },
             sep \in { <<SP>>, <<9>>, <<SP, SP>>, <<13, SP>> }, m \in {0, 2} }

GlobalInputs ==
    { BlockInput("global", <<STR_GLOBAL>> \o sch, sep, t, Body(m), None, None) :
        sch \in GoodSchemes \cup DupSchemes, sep \in { <<SP>>, <<9>> },
        t \in BOOLEAN, m \in {0, 1, 2, 3, 6} }
    \cup { BlockInput("global", ts, <<SP>>, TRUE, Body(m), None, None) :
             ts \in { <<>>, << <<76, 65, 66, 79, 76, 71>> >>,
                      << STR_COMPONENT, <<97>> >>, << <<71, 76, 79, 66, 65, 76, 200>> >> },
             m \in {0, 1} }

BlockInputs == ArrayInputs \cup GlobalInputs

\* the record indices asked of get / get_mut
GetIdxs ==
    { U32(0), U32(1), U32(2), U32(3), <<0, 1, 0, 0>>, <<127, 255, 255, 255>>,
      <<128, 0, 0, 0>>, <<255, 255, 255, 255>> }

\* the field names asked of a record: x, y, a, f, q
GetNames == { <<120>>, <<121>>, <<97>>, <<102>>, <<113>> }

InitBlock ==
    /\ InitOthersIdle
    /\ inp \in BlockInputs
    /\ ret = Err
    /\ back = <<>>
    /\ got = None
    /\ cpc = "start"

\* test.rs:175-177 decode_component_array, built with or without overflow
\* checks
DecodeComponentArray ==
    /\ cpc = "start"
    /\ inp.block = "array"
    /\ \E checks \in BOOLEAN, mem \in Mems :
          ret' = decode_component_array(inp.bytes, 0, checks, mem)
    /\ cpc' = "decoded"
    /\ UNCHANGED <<inp, back, got>>
    /\ OthersIdle

\* test.rs:301-303 decode_global_component
DecodeGlobalComponent ==
    /\ cpc = "start"
    /\ inp.block = "global"
    /\ \E mem \in Mems : ret' = decode_global_component(inp.bytes, 0, mem)
    /\ cpc' = "decoded"
    /\ UNCHANGED <<inp, back, got>>
    /\ OthersIdle

\* ComponentArray::get / get_mut on the array decoded, then field on the
\* record
Get ==
    /\ cpc = "decoded"
    /\ inp.block = "array"
    /\ ret.ok
    /\ \E idx \in GetIdxs, name \in GetNames :
          got' = Some([idx |-> idx,
                       rec |-> get_record(ret.val, idx),
                       name |-> name,
                       field |-> get_field(ret.val, get_record(ret.val, idx), name)])
    /\ cpc' = "got"
    /\ UNCHANGED <<inp, ret, back>>
    /\ OthersIdle

\* test.rs:179-183 encode_component_array, on the array decoded
EncodeComponentArray ==
    /\ cpc = "decoded"
    /\ inp.block = "array"
    /\ ret.ok
    /\ back' = Flatten(encode_component_array(ret.val, IdentityTransform))
    /\ cpc' = "encoded"
    /\ UNCHANGED <<inp, ret, got>>
    /\ OthersIdle

NextBlock ==
    DecodeComponentArray \/ DecodeGlobalComponent \/ Get \/ EncodeComponentArray

SpecBlock == InitBlock /\ [][NextBlock]_vars

\* the same name at two positions of the scheme
HasDuplicate(scheme) ==
    \E i \in 1..Len(scheme) : \E j \in 1..Len(scheme) : i # j /\ scheme[i] = scheme[j]

(* C17: decode_component_array and decode_global_component return a decode  *)
(* error whenever the scheme of the header line has the same field name at  *)
(* two positions, adjacent or not, whatever bytes follow the header.        *)
C17_DuplicateFieldRejected ==
    cpc # "start" /\ HasDuplicate(inp.scheme) => ret = Err

\* COMPONENT foo 7 1 a b c d a f, followed by six values, has been rejected
C17_Witness ==
    /\ cpc = "decoded"
    /\ inp.block = "array"
    /\ inp.terminated
    /\ inp.tokens = <<STR_COMPONENT, STR_foo, fmt(7), fmt(1),
                      <<97>>, <<98>>, <<99>>, <<100>>, <<97>>, <<102>>>>
    /\ Len(inp.vals) = 6
    /\ ret = Err

\* the header line is one that decode_component_array has to refuse
BadArrayHeader(i) ==
    \/ Len(i.tokens) < 4
    \/ i.tokens[1] # STR_COMPONENT
    \/ i.idv = None
    \/ i.nv = None
    \/ \E k \in 1..Len(i.line) : i.line[k] >= 128
    \/ ~i.terminated

(* C18: decode_component_array returns a decode error when the header line  *)
(* has fewer than 4 tokens, when the first token is not COMPONENT, when the *)
(* id token is not a decimal number in 0..65535 (65535 accepted, 65536      *)
(* rejected), when the count token is not a decimal number in 0..2^32-1,    *)
(* when the header holds a byte >= 0x80, or when the input ends before the  *)
(* newline.                                                                 *)
C18_BadHeaderRejected ==
    cpc # "start" /\ inp.block = "array" =>
        /\ BadArrayHeader(inp) => ret = Err
        /\ inp.tokens = <<STR_COMPONENT, STR_foo, fmt(65535), fmt(0)>> /\ inp.terminated
              => ret.ok /\ ret.val.id = 65535

\* COMPONENT foo 65536 0 has been rejected
C18_Witness ==
    /\ cpc = "decoded"
    /\ inp.block = "array"
    /\ inp.terminated
    /\ inp.tokens = <<STR_COMPONENT, STR_foo, fmt(65536), fmt(0)>>
    /\ ret = Err

\* n * k for a count n of 32 bits and a scheme length k, when it is below
\* 2^30; no input of the model holds that many values
SmallProduct(n, k) == (n[1] * 256 + n[2]) * k < 16384

Product(n, k) == (n[1] * 256 + n[2]) * k * 65536 + (n[3] * 256 + n[4]) * k

\* the position after the header line and the first m values
EndOfValues(i, m) ==
    Len(i.line) + 1 + Len(Flatten([k \in 1..m |-> Canon(i.vals[k])]))

(* C19: when decode_component_array succeeds on a header with count n and k *)
(* field names it has read exactly n*k values, the product taken without    *)
(* 32-bit wraparound, and values holds these n*k values in document order;  *)
(* with fewer than n*k values in the input the decode fails.                *)
C19_ExactValueCount ==
    cpc # "start" /\ inp.block = "array" /\ ~BadArrayHeader(inp)
                 /\ ~HasDuplicate(inp.scheme) =>
        LET n == inp.nv[1]
            k == Len(inp.scheme)
        IN /\ ret.ok =>
                /\ SmallProduct(n, k)
                /\ Product(n, k) <= Len(inp.vals)
                /\ ret.val.values = SubSeq(inp.vals, 1, Product(n, k))
                /\ ret.pos = EndOfValues(inp, Product(n, k))
           /\ (~SmallProduct(n, k) \/ Len(inp.vals) < Product(n, k)) => ret = Err

\* the marker array of a header has been asked for a record
MarkerAsked == cpc = "got" /\ inp.scheme = <<>>

(* C20: for a component array with an empty scheme, get(0) and get_mut(0)   *)
(* return a record, with no fields, and get(i) and get_mut(i) return absent *)
(* for every i other than 0, whatever record count the header declared.     *)
C20_MarkerOnlyZero ==
    MarkerAsked =>
        IF got[1].idx = <<0, 0, 0, 0>>
        THEN got[1].rec = Some(<<0, 0>>)
        ELSE got[1].rec = None

\* a marker array declared with 4294967295 records has been asked for the
\* record 1 and gave none
C20_Witness ==
    /\ MarkerAsked
    /\ inp.nv = Some(<<255, 255, 255, 255>>)
    /\ got[1].idx = U32(1)
    /\ got[1].rec = None

\* idx is below the number r of records
BelowCount(idx, r) == idx[1] = 0 /\ idx[2] = 0 /\ idx[3] * 256 + idx[4] < r

\* idx * k or (idx + 1) * k does not fit 32 bits
RangeOverflows(idx, k) ==
    (idx[1] * 256 + idx[2]) * k + ((idx[3] * 256 + idx[4]) * k + k) \div 65536 >= 65536

\* the position (from 1) of name in scheme, 0 when it is not there
PositionOf(scheme, name) ==
    IF \E p \in 1..Len(scheme) : scheme[p] = name
    THEN CHOOSE p \in 1..Len(scheme) : scheme[p] = name
    ELSE 0

(* C21: for an array of k >= 1 fields and r records, get(idx) and           *)
(* get_mut(idx) return a record if and only if idx < r; the record is       *)
(* values[idx*k .. (idx+1)*k], the field named f is values[idx*k + p] with  *)
(* p the position of f in the scheme; a name that is not in the scheme      *)
(* gives absent, and so does an idx whose range does not fit 32 bits.       *)
C21_RecordAccess ==
    cpc = "got" /\ Len(inp.scheme) >= 1 =>
        LET k == Len(ret.val.scheme)
            r == Len(ret.val.values) \div k
            g == got[1]
            i == g.idx[3] * 256 + g.idx[4]
            p == PositionOf(ret.val.scheme, g.name)
        IN /\ g.rec # None <=> BelowCount(g.idx, r)
           /\ RangeOverflows(g.idx, k) => g.rec = None
           /\ g.rec # None =>
                /\ g.rec = Some(<<i * k, (i + 1) * k>>)
                /\ p # 0 => g.field = Some(ret.val.values[i * k + p])
                /\ p = 0 => g.field = None

\* the field y of the record 2 of a three-record array x y is the sixth
\* value
C21_Witness ==
    /\ cpc = "got"
    /\ inp.scheme = << <<120>>, <<121>> >>
    /\ Len(ret.val.values) = 6
    /\ got[1].idx = U32(2)
    /\ got[1].name = <<121>>
    /\ got[1].field = Some(BodyValues[6])

\* a number written in plain decimal: digits, no sign, no leading zero
PlainDecimal(tok) ==
    /\ tok # <<>>
    /\ \A k \in 1..Len(tok) : tok[k] >= 48 /\ tok[k] <= 57
    /\ Len(tok) > 1 => tok[1] # 48

\* the block of the input is written as the claim of the round trip wants:
\* single spaces, plain decimal numbers, and nothing after its values
PlainBlock ==
    /\ inp.block = "array"
    /\ inp.sep = <<SP>>
    /\ PlainDecimal(inp.tokens[3])
    /\ PlainDecimal(inp.tokens[4])
    /\ ret.pos = Len(inp.bytes)

RECURSIVE HoldsLargeArray(_)
HoldsLargeArray(v) ==
    CASE v[1] = "Array" ->
            Len(v[2]) > 255 \/ \E k \in 1..Len(v[2]) : HoldsLargeArray(v[2][k])
      [] v[1] = "Maybe" -> v[2] # None /\ HoldsLargeArray(v[2][1])
      [] OTHER -> FALSE

(* C23, as stated: for every block b that decode_component_array accepts,   *)
(* with single spaces, plain decimal numbers and minimal values,            *)
(* encode_component_array(decode_component_array(b)) is b byte for byte,    *)
(* the record count written being the record count read.                    *)
C23_BlockRoundTrip ==
    cpc = "encoded" /\ PlainBlock => back = inp.bytes

\* what the round trip of a block gives apart from the large arrays and the
\* products that do not fit: the bytes read when the scheme is not empty or
\* the count is 0, and the header with the count 0 for a marker block
BlockRoundTripElsewhere ==
    cpc = "encoded" /\ PlainBlock =>
        /\ (/\ inp.scheme # <<>> \/ inp.nv = Some(U32(0))
            /\ SmallProduct(inp.nv[1], Len(inp.scheme))
            /\ \A k \in 1..Len(inp.vals) : ~HoldsLargeArray(inp.vals[k]))
              => back = inp.bytes
        /\ inp.scheme = <<>> =>
              back = JoinTokens(<<inp.tokens[1], inp.tokens[2], inp.tokens[3], fmt(0)>>,
                                <<SP>>) \o <<NL>>


---------------------------------------------------------------------------
(* Entity records: encode_entity_data, then decode_entity_data on the bytes *)
(* written, and decode_entity_data on records cut short (test.rs:442-509).  *)

MaxComponents == 300

\* component indices of every form, taken in turn
IdxPool ==
    << [id |-> 1, idx |-> U32(1)], [id |-> 0, idx |-> U32(0)],
       [id |-> 200, idx |-> U32(3)], [id |-> 63, idx |-> U32(256)],
       [id |-> 4660, idx |-> <<0, 1, 0, 0>>], [id |-> 64, idx |-> U32(0)],
       [id |-> 65535, idx |-> <<255, 255, 255, 255>>] >>

Components(c, from) == [k \in 1..c |-> IdxPool[((k + from) % Len(IdxPool)) + 1]]

ComponentCounts == {0, 1, 2, 3, 100, 253, 254, 255, 256, MaxComponents}

\* the bytes of the component indices cs, one after the other
IdxBytes(cs) == Flatten([k \in 1..Len(cs) |-> Flatten(encode_component_idx(cs[k]))])

\* the count c as the format writes it
CountForm(c) == IF c <= 254 THEN <<c>> ELSE <<255, c \div 256, c % 256>>

EntityDataInputs ==
    \* records to encode and decode again
    { [kind |-> "data", deleted |-> d, components |-> Components(c, from),
       bytes |-> <<>>, announced |-> c, present |-> c] :
        d \in BOOLEAN, c \in ComponentCounts, from \in 0..2 }
    \* a count followed by fewer component indices than it announces
    \cup { [kind |-> "short", deleted |-> FALSE, components |-> Components(m, from),
            bytes |-> CountForm(c) \o IdxBytes(Components(m, from)),
            announced |-> c, present |-> m] :
             c \in ComponentCounts \ {0}, m \in {0, 1, 2, 99, 254, 255}, from \in 0..1 }
    \* the last component index cut by one byte
    \cup { [kind |-> "cut", deleted |-> FALSE, components |-> Components(c, from),
            bytes |-> CountForm(c)
                      \o SubSeq(IdxBytes(Components(c, from)), 1,
                                Len(IdxBytes(Components(c, from))) - 1),
            announced |-> c, present |-> c - 1] :
             c \in ComponentCounts \ {0}, from \in 0..2 }
    \* 0xFF and 255 component indices C0, the 16-bit count left out: the first
    \* two of them are read as the count 0xC0C0
    \cup { [kind |-> "short", deleted |-> FALSE,
            components |-> [k \in 1..255 |-> [id |-> 0, idx |-> U32(0)]],
            bytes |-> <<255>> \o [k \in 1..255 |-> 192],
            announced |-> 49344, present |-> 253] }

InitEntityData ==
    /\ InitOthersIdle
    /\ inp \in { i \in EntityDataInputs : i.kind = "data" \/ i.present < i.announced }
    /\ ret = Err
    /\ back = <<>>
    /\ got = None
    /\ cpc = "start"

\* test.rs:446-450 encode_entity_data
EncodeEntityData ==
    /\ cpc = "start"
    /\ inp.kind = "data"
    /\ \E checks \in BOOLEAN :
          back' = try_writes(NewState(0, None),
                             encode_entity_data([is_deleted |-> inp.deleted,
                                                 components |-> inp.components],
                                                checks)).es.out
    /\ cpc' = "encoded"
    /\ UNCHANGED <<inp, ret, got>>
    /\ OthersIdle

\* test.rs:442-444 decode_entity_data, on the bytes written or on the bytes
\* of a record cut short
DecodeEntityData ==
    /\ \/ cpc = "encoded"
       \/ cpc = "start" /\ inp.kind # "data"
    /\ ret' = decode_entity_data(IF inp.kind = "data" THEN back ELSE inp.bytes, 0)
    /\ cpc' = "decoded"
    /\ UNCHANGED <<inp, back, got>>
    /\ OthersIdle

NextEntityData == EncodeEntityData \/ DecodeEntityData

SpecEntityData == InitEntityData /\ [][NextEntityData]_vars

(* C24: encode_entity_data writes the number c of component indices as the  *)
(* byte c when c <= 254 and as 0xFF and c in 16 big-endian bits when        *)
(* 255 <= c <= 65535; decode_entity_data on these bytes returns the same    *)
(* component indices in the same order with is_deleted = false; and         *)
(* decode_entity_data fails when fewer component indices follow than the    *)
(* count announces, 0xFF followed by component indices alone included.      *)
C24_EntityDataCount ==
    /\ inp.kind = "data" /\ cpc \in {"encoded", "decoded"} =>
           back = CountForm(Len(inp.components)) \o IdxBytes(inp.components)
    /\ inp.kind = "data" /\ cpc = "decoded" =>
           ret = Ok([is_deleted |-> FALSE, components |-> inp.components], Len(back))
    /\ inp.kind \in {"short", "cut"} /\ cpc = "decoded" =>
           inp.present < inp.announced /\ ret = Err

\* a deleted record of 255 component indices has been written with the
\* count FF 00 FF and read back
C24_Witness ==
    /\ inp.kind = "data"
    /\ inp.deleted
    /\ cpc = "decoded"
    /\ Len(inp.components) = 255
    /\ SubSeq(back, 1, 3) = <<255, 0, 255>>
    /\ ret.ok /\ ret.val.components = inp.components /\ ~ret.val.is_deleted

---------------------------------------------------------------------------
(* World documents: decode_world on a document of up to MaxArrays component *)
(* arrays and one entity, then the look-up of every component index of the  *)
(* entity in the world decoded.                                             *)

MaxArrays == 2
MaxId == 2

\* the names a and b
ArrayNames == { <<97>>, <<98>> }

\* the headers of the arrays of a document: a name and an id each
ArrayHeads == [name : ArrayNames, id : 0..MaxId]

ArrayLists == UNION { [1..n -> ArrayHeads] : n \in 0..MaxArrays }

\* the component indices of the entity of a document
EntityComponents ==
    { <<>>,
      << [id |-> 0, idx |-> U32(0)] >>,
      << [id |-> 0, idx |-> U32(1)] >>,
      << [id |-> 1, idx |-> U32(0)], [id |-> MaxId, idx |-> U32(0)] >> }

\* COMPONENT <name> <id> 1 x, the value Int(7) and the newline of the block
ArrayText(a) ==
    STR_COMPONENT \o <<SP>> \o a.name \o <<SP>> \o fmt(a.id) \o <<SP>> \o fmt(1)
        \o <<SP, 120, NL>> \o <<7>> \o <<NL>>

\* the document of the arrays, an empty global component and one entity
WorldText(arrays, max, cs) ==
    STR_WORLD \o <<SP>> \o fmt(Len(arrays)) \o <<SP>> \o fmt(max) \o <<NL>>
        \o Flatten([k \in 1..Len(arrays) |-> ArrayText(arrays[k])])
        \o STR_GLOBAL \o <<NL, NL>>
        \o STR_ENTITIES \o <<SP>> \o fmt(1) \o <<NL>>
        \o <<Len(cs)>> \o Flatten([k \in 1..Len(cs) |-> Flatten(encode_component_idx(cs[k]))])

WorldInputs ==
    { [kind |-> "world", arrays |-> as, max |-> max, components |-> cs,
       bytes |-> WorldText(as, max, cs)] :
        as \in ArrayLists, max \in 0..MaxId, cs \in EntityComponents }

InitLoad ==
    /\ InitOthersIdle
    /\ inp \in WorldInputs
    /\ ret = Err
    /\ back = <<>>
    /\ got = None
    /\ cpc = "start"

DecodeWorld ==
    /\ cpc = "start"
    /\ \E checks \in BOOLEAN, mem \in Mems :
          ret' = decode_world(inp.bytes, 0, checks, mem)
    /\ cpc' = "decoded"
    /\ UNCHANGED <<inp, back, got>>
    /\ OthersIdle

\* world.components.get(c.id) and ComponentArray::get(c.idx) on it
look_up(w, c) ==
    IF c.id \in DOMAIN w.components THEN get_record(w.components[c.id], c.idx)
    ELSE None

\* the look-up of every component index of every entity of the world
look_ups(w) ==
    [e \in 1..Len(w.entities) |->
        [k \in 1..Len(w.entities[e].components) |->
            look_up(w, w.entities[e].components[k])]]

GetComponents ==
    /\ cpc = "decoded"
    /\ ret.ok
    /\ got' = Some(look_ups(ret.val))
    /\ cpc' = "got"
    /\ UNCHANGED <<inp, ret, back>>
    /\ OthersIdle

NextLoad == DecodeWorld \/ GetComponents

SpecLoad == InitLoad /\ [][NextLoad]_vars

\* two arrays of the document have the same name
SameName(as) == \E i, j \in 1..Len(as) : i # j /\ as[i].name = as[j].name

\* two arrays of the document have the same id
SameId(as) == \E i, j \in 1..Len(as) : i # j /\ as[i].id = as[j].id

\* an array of the document has an id above max
AboveMax(as, max) == \E i \in 1..Len(as) : as[i].id > max

(* C22: decode_world returns a decode error when two component arrays have  *)
(* the same name, or the same id, or when an id is above the maximum        *)
(* declared in the WORLD header; an id equal to the maximum is accepted,    *)
(* and so is every document of the model free of the three.                 *)
C22_ArraysDistinct ==
    cpc = "decoded" =>
        IF SameName(inp.arrays) \/ SameId(inp.arrays) \/ AboveMax(inp.arrays, inp.max)
        THEN ret = Err
        ELSE /\ ret.ok
             /\ DOMAIN ret.val.components = { inp.arrays[i].id : i \in 1..Len(inp.arrays) }

\* a document of two arrays of different names and ids, one of them with
\* the maximum as its id, has been decoded
C22_Witness ==
    /\ cpc = "decoded"
    /\ Len(inp.arrays) = 2
    /\ ~SameName(inp.arrays) /\ ~SameId(inp.arrays)
    /\ inp.arrays[2].id = inp.max
    /\ ret.ok

(* C29: after decode_world succeeds, every ComponentIdx {id, idx} of every  *)
(* entity names an existing record: id is the id of a component array of    *)
(* the world and get(idx) on that array returns a record.                   *)
C29_IndicesResolve ==
    cpc = "got" =>
        \A e \in 1..Len(got[1]) : \A k \in 1..Len(got[1][e]) : got[1][e][k] # None

---------------------------------------------------------------------------
(* Items in a stream: a value, a component index or a run of values is      *)
(* written, other bytes follow, and the decoder reads from the start.       *)

\* the bytes that follow the item: none, the newline of a block, a small int,
\* a tag with its operand, a component index
Suffixes == { <<>>, <<NL>>, <<0>>, <<168, 255>>, <<192, 7>> }

\* the values written alone: the scalars, the nested values, and the arrays
\* and byte strings at the lengths where the header changes
ItemValues ==
    TestScalars \cup TestNested
    \cup { v \in TestArrays \cup TestBytes : Len(v[2]) \in {0, 1, 2, 255, 256} }

\* the values of a run; Int(10) is written as the byte of a newline
RunValues ==
    { VInt(I64(10)), VMaybe(None), VArray(<<VInt(I64(10))>>), VBytes(<<NL, NL>>),
      VEntityId(Idx(U32(2))) }

MaxRun == 3

Runs == UNION { [1..n -> RunValues] : n \in 0..MaxRun }

ItemInputs ==
    { [kind |-> "value", item |-> v, suffix |-> s] : v \in ItemValues, s \in Suffixes }
    \cup { [kind |-> "idx", item |-> c, suffix |-> s] :
              c \in TestComponentIdxs, s \in Suffixes }
    \cup { [kind |-> "run", item |-> r, suffix |-> s] : r \in Runs, s \in Suffixes }

\* the bytes written for the item of i; a run ends with the newline of its
\* block
item_bytes(i) ==
    CASE i.kind = "value" -> Flatten(encode_value(i.item, IdentityTransform))
      [] i.kind = "idx" -> Flatten(encode_component_idx(i.item))
      [] i.kind = "run" ->
            Flatten([k \in 1..Len(i.item) |->
                        Flatten(encode_value(i.item[k], IdentityTransform))])
                \o <<NL>>

\* the newline of the block after the values read
then_newline(b, r) ==
    IF ~r.ok THEN Err
    ELSE IF expect_newline(b, r.pos).ok THEN Ok(r.val, r.pos + 1)
    ELSE Err

\* the decoder of the kind of i on the bytes b, from their start
item_decode(i, b, mem) ==
    CASE i.kind = "value" -> decode_value(b, 0, mem)
      [] i.kind = "idx" -> decode_component_idx(b, 0)
      [] i.kind = "run" -> then_newline(b, decode_values(b, 0, Len(i.item), mem))

InitItem ==
    /\ InitOthersIdle
    /\ inp \in ItemInputs
    /\ ret = Err
    /\ back = <<>>
    /\ got = None
    /\ cpc = "start"

EncodeItem ==
    /\ cpc = "start"
    /\ back' = item_bytes(inp)
    /\ cpc' = "encoded"
    /\ UNCHANGED <<inp, ret, got>>
    /\ OthersIdle

DecodeItem ==
    /\ cpc = "encoded"
    /\ \E mem \in Mems : ret' = item_decode(inp, back \o inp.suffix, mem)
    /\ cpc' = "decoded"
    /\ UNCHANGED <<inp, back, got>>
    /\ OthersIdle

NextItem == EncodeItem \/ DecodeItem

SpecItem == InitItem /\ [][NextItem]_vars

(* C28: decode_value and decode_component_idx consume exactly the bytes of  *)
(* one item: decoding the encoding of an item followed by any bytes s       *)
(* returns the item and leaves the cursor at the length of the encoding, s  *)
(* unread; a run of encoded values followed by the newline of its block     *)
(* decodes value by value up to the newline.                                *)
C28_ExactlyOneItem ==
    cpc = "decoded" => ret = Ok(inp.item, Len(back))

---------------------------------------------------------------------------
(* The scripting host in use *)

HostIds == {1, 2}

\* the closures handed to register_native_system, register_native_query
\* and context_mut: |_| {} and |w| *w = World::from_reader(DocB).unwrap()
NativeFuncs == {"keep", "load"}

\* the scripts a registration can store
Scripts == {[kind |-> "Lua"]} \cup { [kind |-> "Native", func |-> f] : f \in NativeFuncs }

\* func(&mut *world): the world context after the call of the closure f
call_native(f, w) ==
    IF f = "load" THEN decode_world(DocB, 0, FALSE, None).val ELSE w

\* the world context after run_system / run_query on the script at id of
\* the map m: a native script is called with the context borrowed for
\* writing; a Lua script receives the ContextRef userdata, which has no
\* method (lua.rs:40), and leaves the context as it is
world_after_run(m, id, w) ==
    IF id \in DOMAIN m /\ m[id].kind = "Native" THEN call_native(m[id].func, w)
    ELSE w

HostOthersIdle ==
    UNCHANGED <<out, res, sink, val, enc, dec, vpc, inp, ret, back, got, cpc>>

InitHost ==
    /\ world = EmptyWorld
    /\ out = <<>>
    /\ res = "none"
    /\ sink = [fail_at |-> 0, room |-> None, n |-> 0, failed |-> FALSE, calls |-> 0]
    /\ val = VBool(FALSE)
    /\ enc = <<>>
    /\ dec = Err
    /\ vpc = "idle"
    /\ inp = [kind |-> "none", bytes |-> <<>>]
    /\ ret = Err
    /\ back = <<>>
    /\ got = None
    /\ cpc = "idle"
    /\ host = NewHost

\* register_lua_system (the code may fail to load) / register_native_system
RegisterSystem ==
    /\ \E id \in HostIds, script \in Scripts, loads \in BOOLEAN :
          host' = IF script.kind = "Lua" /\ ~loads
                  THEN [host EXCEPT !.last = "register_system", !.result = "Err"]
                  ELSE [host EXCEPT !.systems = (id :> script) @@ host.systems,
                                    !.last = "register_system",
                                    !.result = system_info(host, id)]
    /\ world' = world
    /\ HostOthersIdle

\* script.rs:69-87
RunSystem ==
    /\ \E id \in HostIds : \E r \in run_system_results(host, id) :
          /\ host' = [host EXCEPT !.last = "run_system", !.result = r]
          /\ world' = world_after_run(host.systems, id, world)
    /\ HostOthersIdle

RemoveSystem ==
    /\ \E id \in HostIds :
          host' = [host EXCEPT !.systems = map_remove(host.systems, id),
                               !.last = "remove_system",
                               !.result = system_info(host, id)]
    /\ world' = world
    /\ HostOthersIdle

\* script.rs:98-101
ClearSystems ==
    /\ host' = [host EXCEPT !.systems = <<>>, !.last = "clear_systems",
                            !.result = "none"]
    /\ world' = world
    /\ HostOthersIdle

\* register_lua_query (the code may fail to load) / register_native_query
RegisterQuery ==
    /\ \E id \in HostIds, script \in Scripts, loads \in BOOLEAN :
          host' = IF script.kind = "Lua" /\ ~loads
                  THEN [host EXCEPT !.last = "register_query", !.result = "Err"]
                  ELSE [host EXCEPT !.queries = (id :> script) @@ host.queries,
                                    !.last = "register_query",
                                    !.result = query_info(host, id)]
    /\ world' = world
    /\ HostOthersIdle

\* script.rs:136-153
RunQuery ==
    /\ \E id \in HostIds : \E r \in run_query_results(host, id) :
          /\ host' = [host EXCEPT !.last = "run_query", !.result = r]
          /\ world' = world_after_run(host.queries, id, world)
    /\ HostOthersIdle

RemoveQuery ==
    /\ \E id \in HostIds :
          host' = [host EXCEPT !.queries = map_remove(host.queries, id),
                               !.last = "remove_query",
                               !.result = query_info(host, id)]
    /\ world' = world
    /\ HostOthersIdle

\* script.rs:163-166: the map cleared is self.systems
ClearQueries ==
    /\ host' = [host EXCEPT !.systems = <<>>, !.last = "clear_queries",
                            !.result = "none"]
    /\ world' = world
    /\ HostOthersIdle

\* script.rs:189-195 context_mut: the closure is called with the world
\* context borrowed for writing
ContextMut ==
    /\ \E f \in NativeFuncs :
          /\ world' = call_native(f, world)
          /\ host' = [host EXCEPT !.last = "context_mut", !.result = "none"]
    /\ HostOthersIdle

NextHost ==
    \/ RegisterSystem \/ RunSystem \/ RemoveSystem \/ ClearSystems
    \/ RegisterQuery \/ RunQuery \/ RemoveQuery \/ ClearQueries
    \/ ContextMut

SpecHost == InitHost /\ [][NextHost]_vars

\* no query is left in h, and the systems answer as they do in g
QueriesCleared(g, h) ==
    \A id \in HostIds :
        /\ query_info(h, id) = "None"
        /\ run_query_results(h, id) = {"Ok(None)"}
        /\ system_info(h, id) = system_info(g, id)
        /\ run_system_results(h, id) = run_system_results(g, id)

\* no system is left in h, and the queries answer as they do in g
SystemsCleared(g, h) ==
    \A id \in HostIds :
        /\ system_info(h, id) = "None"
        /\ run_system_results(h, id) = {"Ok(false)"}
        /\ query_info(h, id) = query_info(g, id)
        /\ run_query_results(h, id) = run_query_results(g, id)

(* C30: after clear_queries() every query id reports ScriptType::None from  *)
(* query_info and run_query returns None for it, the registered systems     *)
(* answering system_info and run_system as before the call; after           *)
(* clear_systems() no system is left and the queries answer as before.      *)
C30_ClearIsSeparate ==
    [][/\ host'.last = "clear_queries" => QueriesCleared(host, host')
       /\ host'.last = "clear_systems" => SystemsCleared(host, host')]_vars

---------------------------------------------------------------------------
(* Properties of a saved world, under Spec *)

\* the last to_writer call returned Ok on a writer that failed no write
Saved == res = "Ok" /\ sink.fail_at = 0 /\ sink.room = None

\* what decode_world makes of the bytes written
Loaded == decode_world(out, 0, FALSE, None)

IsLive(e) == ~e.is_deleted

\* the number of non-deleted entities at the positions below i (0-based)
LiveBelow(entities, i) ==
    Cardinality({ k \in 1..Len(entities) : k <= i /\ IsLive(entities[k]) })

\* the id to be written for id: the rank of a live target among the live
\* entities, Invalid for a deleted or absent target
Repacked(entities, id) ==
    IF ~IsIdx(id) THEN Invalid
    ELSE IF id[2][1] >= 128 THEN Invalid
    ELSE LET i == U32Nat(id[2])
         IN IF i < Len(entities) /\ IsLive(entities[i + 1])
            THEN Idx(U32(LiveBelow(entities, i)))
            ELSE Invalid

\* v with every EntityId in it, at any depth, replaced by its Repacked id
RECURSIVE Rewritten(_, _)
Rewritten(entities, v) ==
    CASE v[1] = "EntityId" -> VEntityId(Repacked(entities, v[2]))
      [] v[1] = "Array" ->
            VArray([k \in 1..Len(v[2]) |-> Rewritten(entities, v[2][k])])
      [] v[1] = "Maybe" ->
            IF v[2] = None THEN v ELSE VMaybe(Some(Rewritten(entities, v[2][1])))
      [] OTHER -> v

\* the EntityIds in v, at any depth
RECURSIVE EntityIds(_)
EntityIds(v) ==
    CASE v[1] = "EntityId" -> {v[2]}
      [] v[1] = "Array" -> UNION { EntityIds(v[2][k]) : k \in 1..Len(v[2]) }
      [] v[1] = "Maybe" -> IF v[2] = None THEN {} ELSE EntityIds(v[2][1])
      [] OTHER -> {}

\* the EntityIds in the values of the component arrays and of the global
\* component of w
WorldEntityIds(w) ==
    UNION ({ UNION { EntityIds(w.components[id].values[k]) :
                        k \in 1..Len(w.components[id].values) } :
                id \in DOMAIN w.components }
           \cup { UNION { EntityIds(w.global.values[k]) :
                            k \in 1..Len(w.global.values) } })

\* the value written for the field slot k of values is the Repacked id of the
\* EntityId the slot holds
DirectIdsRepacked(entities, values, written) ==
    \A k \in 1..Len(values) :
        values[k][1] = "EntityId" =>
            written[k] = VEntityId(Repacked(entities, values[k][2]))

(* C2: an EntityId::Idx(i) held in a field is written as Idx(r), r the      *)
(* number of non-deleted entities below i, when entity i is not deleted;    *)
(* as Invalid when entity i is deleted or i is past the entity array;       *)
(* Invalid is written as Invalid.                                           *)
C2_FieldIdsRepacked ==
    Saved /\ Loaded.ok =>
        /\ \A id \in DOMAIN world.components :
               DirectIdsRepacked(world.entities, world.components[id].values,
                                 Loaded.val.components[id].values)
        /\ DirectIdsRepacked(world.entities, world.global.values,
                             Loaded.val.global.values)

\* 3 entities, entity 1 deleted: Idx(2) is written as Idx(1), Idx(1) and
\* Idx(7) as Invalid, Invalid as Invalid
C2_Witness ==
    /\ Saved
    /\ Loaded.ok
    /\ Len(world.entities) = 3
    /\ IsLive(world.entities[1])
    /\ ~IsLive(world.entities[2])
    /\ IsLive(world.entities[3])
    /\ 0 \in DOMAIN world.components
    /\ Len(world.components[0].values) = 6
    /\ world.components[0].values[1] = VEntityId(Idx(U32(2)))
    /\ Loaded.val.components[0].values[1] = VEntityId(Idx(U32(1)))
    /\ world.components[0].values[5] = VEntityId(Idx(U32(7)))
    /\ Loaded.val.components[0].values[5] = VEntityId(Invalid)
    /\ world.components[0].values[6] = VEntityId(Invalid)
    /\ Loaded.val.components[0].values[6] = VEntityId(Invalid)
    /\ Len(world.global.values) = 2
    /\ world.global.values[2] = VEntityId(Idx(U32(1)))
    /\ Loaded.val.global.values[2] = VEntityId(Invalid)

(* C3: the bytes encode_world wrote are accepted by decode_world, and       *)
(* encode_world of the decoded world writes the same bytes again.           *)
C3_SaveLoadSave ==
    Saved => Loaded.ok /\ encode_world(NewState(0, None), Loaded.val, FALSE).es.out = out

(* C4: every EntityId::Idx(j) in a written component-array or global value  *)
(* has j below the entity count of the ENTITIES header.                     *)
C4_NoDanglingId ==
    Saved /\ Loaded.ok =>
        \A id \in WorldEntityIds(Loaded.val) :
            IsIdx(id) => id[2][1] < 128 /\ U32Nat(id[2]) < Len(Loaded.val.entities)

\* a world that holds an id at or past the count of its live entities has
\* been written, and an Idx has been written
C4_Witness ==
    /\ Saved
    /\ Loaded.ok
    /\ \E id \in WorldEntityIds(world) :
           IsIdx(id) /\ U32Nat(id[2]) >= Len(SelectSeq(world.entities, IsLive))
    /\ \E id \in WorldEntityIds(world) :
           IsIdx(id) /\ U32Nat(id[2]) >= Len(world.entities)
    /\ \E e \in 1..Len(world.entities) : ~IsLive(world.entities[e])
    /\ \E id \in WorldEntityIds(Loaded.val) : IsIdx(id)

(* C5: every EntityId at every depth (in a field, in Array elements, in     *)
(* arrays of arrays, in Maybe(Some)) of every component array and of the    *)
(* global component is written rewritten.                                   *)
C5_RewriteEverywhere ==
    Saved /\ Loaded.ok =>
        /\ \A id \in DOMAIN world.components :
               Loaded.val.components[id].values =
                   [k \in 1..Len(world.components[id].values) |->
                       Rewritten(world.entities, world.components[id].values[k])]
        /\ Loaded.val.global.values =
               [k \in 1..Len(world.global.values) |->
                   Rewritten(world.entities, world.global.values[k])]

\* 3 entities, entity 1 deleted: [Idx 1, [Idx 2], Some(Idx 0)] is written as
\* [Invalid, [Idx 1], Some(Idx 0)] and the global Some([Idx 2]) as Some([Idx 1])
C5_Witness ==
    /\ Saved
    /\ Loaded.ok
    /\ Len(world.entities) = 3
    /\ ~IsLive(world.entities[2])
    /\ 0 \in DOMAIN world.components
    /\ Len(world.components[0].values) = 6
    /\ world.components[0].values[3] =
           VArray(<<VEntityId(Idx(U32(1))), VArray(<<VEntityId(Idx(U32(2)))>>),
                    VMaybe(Some(VEntityId(Idx(U32(0)))))>>)
    /\ Loaded.val.components[0].values[3] =
           VArray(<<VEntityId(Invalid), VArray(<<VEntityId(Idx(U32(1)))>>),
                    VMaybe(Some(VEntityId(Idx(U32(0)))))>>)
    /\ Len(world.global.values) = 2
    /\ world.global.values[1] = VMaybe(Some(VArray(<<VEntityId(Idx(U32(2)))>>)))
    /\ Loaded.val.global.values[1] =
           VMaybe(Some(VArray(<<VEntityId(Idx(U32(1)))>>)))

(* C6: packed_idxs() has the length of the entity array, None exactly at    *)
(* the deleted positions and Some(0), Some(1), Some(2), ... at the others   *)
(* in order.                                                                *)
C6_PackedIdxs ==
    LET p == packed_idxs(world.entities)
    IN /\ Len(p) = Len(world.entities)
       /\ \A k \in 1..Len(world.entities) :
              IF IsLive(world.entities[k])
              THEN p[k] = Some(LiveBelow(world.entities, k - 1))
              ELSE p[k] = None

\* a world of 3 entities with entity 1 deleted has been written
C6_Witness ==
    /\ res = "Ok"
    /\ Len(world.entities) = 3
    /\ ~IsLive(world.entities[2])
    /\ packed_idxs(world.entities) = <<Some(0), None, Some(1)>>

\* the ENTITIES block of entries: the header with the count of the live
\* entries, then their records in order
EntitiesBlock(entries) ==
    LET live == SelectSeq(entries, IsLive)
    IN STR_ENTITIES \o <<SP>> \o fmt(Len(live)) \o <<NL>>
       \o Flatten([k \in 1..Len(live) |-> Flatten(encode_entity_data(live[k], FALSE))])

\* the last n bytes of b
Suffix(b, n) == SubSeq(b, Len(b) - n + 1, Len(b))

(* C7: the output ends with the header ENTITIES <n>, n the number of        *)
(* non-deleted entities, and then exactly the records of the non-deleted    *)
(* entities in order; a deleted entity adds no byte.                        *)
C7_EntitiesBlock ==
    Saved =>
        LET block == EntitiesBlock(world.entities)
        IN /\ Len(out) > Len(block)
           /\ Suffix(out, Len(block)) = block
           /\ out[Len(out) - Len(block)] = NL

\* a world with a deleted entity that has components and a live one that has
\* components has been written
C7_Witness ==
    /\ Saved
    /\ \E k \in 1..Len(world.entities) :
           ~IsLive(world.entities[k]) /\ world.entities[k].components # <<>>
    /\ \E k \in 1..Len(world.entities) :
           IsLive(world.entities[k]) /\ world.entities[k].components # <<>>
    /\ Suffix(out, Len(EntitiesBlock(world.entities))) = EntitiesBlock(world.entities)

\* the ids of S from the lowest up
RECURSIVE Ascending(_)
Ascending(S) ==
    IF S = {} THEN <<>>
    ELSE LET m == CHOOSE x \in S : \A y \in S : x <= y
         IN <<m>> \o Ascending(S \ {m})

\* the line WORLD <number of arrays> <highest id>
WorldLine(ids) ==
    STR_WORLD \o <<SP>> \o fmt(Cardinality(ids)) \o <<SP>>
    \o fmt(IF ids = {} THEN 0 ELSE CHOOSE x \in ids : \A y \in ids : y <= x)
    \o <<NL>>

\* the block of a component array or of the global component, its values
\* rewritten for the entities as they are when the call starts
ArrayBlock(entities, a) ==
    Flatten(encode_component_array(
        [a EXCEPT !.values = [k \in 1..Len(a.values) |-> Rewritten(entities, a.values[k])]],
        IdentityTransform))

GlobalBlock(entities, g) ==
    Flatten(encode_global_component(
        [g EXCEPT !.values = [k \in 1..Len(g.values) |-> Rewritten(entities, g.values[k])]],
        IdentityTransform))

(* C26: encode_world writes the line WORLD <number of component arrays>     *)
(* <highest component id> (0 when there is none), then the component        *)
(* arrays in ascending id order, a newline after each, then the global      *)
(* component and a newline, then the entity array; one mapping to packed    *)
(* indices, that of the entities at the start of the call, serves every     *)
(* component array and the global component.                                *)
C26_WorldOrder ==
    Saved =>
        LET ids == Ascending(DOMAIN world.components)
        IN out = WorldLine(DOMAIN world.components)
                 \o Flatten([k \in 1..Len(ids) |->
                        ArrayBlock(world.entities, world.components[ids[k]]) \o <<NL>>])
                 \o GlobalBlock(world.entities, world.global) \o <<NL>>
                 \o EntitiesBlock(world.entities)

\* a world with the component arrays 0 and 5, a global component with
\* fields and a deleted entity has been written
C26_Witness ==
    /\ Saved
    /\ DOMAIN world.components = {0, 5}
    /\ world.global.values # <<>>
    /\ \E k \in 1..Len(world.entities) : ~IsLive(world.entities[k])
    /\ SubSeq(out, 1, 10) = <<87, 79, 82, 76, 68, 32, 50, 32, 53, 10>>

C8_WriteErrorReturned == sink.failed => res = "Err"

====
